---- MODULE Spec2Model ----
(***************************************************************************)
(* Time-entry normalization and labor-time accounting engine of the        *)
(* punch-card reader: the utilities (timeToMinutes, minutesToTime, the     *)
(* normalization pipeline, the holiday calendar) and the multi-employee    *)
(* editor whose calculation effect recomputes every row and summary.       *)
(*                                                                         *)
(* Strings are sequences of one-character strings, so that parsing and     *)
(* formatting are computed character by character as the code does.        *)
(***************************************************************************)
EXTENDS Integers, Sequences, FiniteSets, TLC

(***************************************************************************)
(* Generic helpers.                                                        *)
(***************************************************************************)
\* null, and NaN of parseInt: a value no parse produces
Null == -1000000

Digits == <<"0", "1", "2", "3", "4", "5", "6", "7", "8", "9">>

IsDigit(c) == \E i \in 1..10 : Digits[i] = c

DigitVal(c) == (CHOOSE i \in 1..10 : Digits[i] = c) - 1

Abs(n) == IF n < 0 THEN 0 - n ELSE n

Max(a, b) == IF a > b THEN a ELSE b

RECURSIVE SumSeq(_)
SumSeq(s) == IF s = <<>> THEN 0 ELSE Head(s) + SumSeq(Tail(s))

\* s.includes(c)
Includes(s, c) == \E i \in 1..Len(s) : s[i] = c

\* s.slice(a, b) with 0-based, end-exclusive indices clamped to the string
Slice(s, a, b) ==
  LET lo == IF a > Len(s) THEN Len(s) ELSE a
      hi == IF b > Len(s) THEN Len(s) ELSE b
  IN IF hi <= lo THEN <<>> ELSE SubSeq(s, lo + 1, hi)

\* array.splice(i, n) with a 0-based start index: the array without those n
RemoveAt(s, i, n) == SubSeq(s, 1, i) \o SubSeq(s, i + n + 1, Len(s))

\* String(n) for n >= 0
RECURSIVE NatToStr(_)
NatToStr(n) ==
  IF n < 10 THEN <<Digits[n + 1]>>
  ELSE NatToStr(n \div 10) \o <<Digits[(n % 10) + 1]>>

\* s.padStart(2, '0')
PadStart2(s) == IF Len(s) < 2 THEN <<"0">> \o s ELSE s

\* the value of the leading run of decimal digits of s (s starts with one)
RECURSIVE DigitRun(_, _)
DigitRun(s, acc) ==
  IF s = <<>> \/ ~IsDigit(Head(s)) THEN acc
  ELSE DigitRun(Tail(s), acc * 10 + DigitVal(Head(s)))

IsSpace(c) == c = " "

RECURSIVE TrimStart(_)
TrimStart(s) ==
  IF s # <<>> /\ IsSpace(Head(s)) THEN TrimStart(Tail(s)) ELSE s

RECURSIVE TrimEnd(_)
TrimEnd(s) ==
  IF s # <<>> /\ IsSpace(s[Len(s)]) THEN TrimEnd(SubSeq(s, 1, Len(s) - 1))
  ELSE s

Trim(s) == TrimEnd(TrimStart(s))

\* parseInt(s, 10): leading blanks, an optional sign, then the leading
\* digits; Null stands for NaN
ParseDigits(u, neg) ==
  IF u = <<>> \/ ~IsDigit(Head(u)) THEN Null
  ELSE IF neg THEN 0 - DigitRun(u, 0) ELSE DigitRun(u, 0)

ParseSigned(t) ==
  IF t # <<>> /\ Head(t) \in {"-", "+"}
  THEN ParseDigits(Tail(t), Head(t) = "-")
  ELSE ParseDigits(t, FALSE)

ParseInt(s) == ParseSigned(TrimStart(s))

\* s.split(sep) for a one-character separator
IndexOf(s, sep) ==
  CHOOSE k \in 1..Len(s) : s[k] = sep /\ \A j \in 1..(k - 1) : s[j] # sep

RECURSIVE Split(_, _)
Split(s, sep) ==
  IF ~Includes(s, sep) THEN <<s>>
  ELSE <<SubSeq(s, 1, IndexOf(s, sep) - 1)>>
         \o Split(SubSeq(s, IndexOf(s, sep) + 1, Len(s)), sep)

\* s.toLowerCase() on the letters the punch strings and labels use
LowerChar(c) ==
  CASE c = "O" -> "o" [] c = "S" -> "s" [] c = "B" -> "b" [] c = "G" -> "g"
    [] c = "I" -> "i" [] c = "L" -> "l" [] c = "H" -> "h" [] c = "F" -> "f"
    [] c = "A" -> "a" [] c = "D" -> "d" [] c = "M" -> "m" [] OTHER -> c

ToLowerCase(s) == [i \in 1..Len(s) |-> LowerChar(s[i])]

UpperChar(c) ==
  CASE c = "o" -> "O" [] c = "s" -> "S" [] c = "b" -> "B" [] c = "g" -> "G"
    [] c = "i" -> "I" [] c = "l" -> "L" [] c = "h" -> "H" [] c = "f" -> "F"
    [] c = "a" -> "A" [] c = "d" -> "D" [] c = "m" -> "M" [] OTHER -> c

ToUpperCase(s) == [i \in 1..Len(s) |-> UpperChar(s[i])]

\* s.includes(sub) for a substring
IncludesStr(s, sub) ==
  \E i \in 0..(Len(s) - Len(sub)) : SubSeq(s, i + 1, i + Len(sub)) = sub

(***************************************************************************)
(* timeToMinutes / minutesToTime.                                          *)
(***************************************************************************)
\* the glyph substitutions of the OCR clean-up, then [.h\s] -> ':'
CleanChar(c) ==
  CASE c \in {"o", "ö"} -> "0"
    [] c \in {"l", "I", "i", "|"} -> "1"
    [] c = "s" -> "5"
    [] c = "b" -> "8"
    [] c = "g" -> "9"
    [] c \in {".", "h", " "} -> ":"
    [] OTHER -> c

\* replace(/:+/g, ':')
RECURSIVE CollapseColons(_)
CollapseColons(s) ==
  IF Len(s) < 2 THEN s
  ELSE IF s[1] = ":" /\ s[2] = ":" THEN CollapseColons(Tail(s))
  ELSE <<Head(s)>> \o CollapseColons(Tail(s))

\* step 3 of timeToMinutes: a colon inserted by digit count
InsertMissingColon(s) ==
  IF Includes(s, ":") THEN s
  ELSE IF Len(s) = 4 THEN Slice(s, 0, 2) \o <<":">> \o Slice(s, 2, Len(s))
  ELSE IF Len(s) = 3 THEN Slice(s, 0, 1) \o <<":">> \o Slice(s, 1, Len(s))
  ELSE s

\* steps 1-2 of timeToMinutes on the trimmed, lower-cased text
CleanTime(lowered) ==
  CollapseColons([i \in 1..Len(lowered) |-> CleanChar(lowered[i])])

\* step 5: the range check on the parsed numbers
HoursAndMinutes(hours, minutes) ==
  IF hours = Null \/ minutes = Null THEN Null
  ELSE IF hours < 0 \/ hours > 24 \/ minutes < 0 \/ minutes > 59 THEN Null
  ELSE hours * 60 + minutes

\* step 4: const parts = cleanTime.split(':')
PartsToMinutes(parts) ==
  IF Len(parts) < 2 THEN Null
  ELSE HoursAndMinutes(ParseInt(parts[1]), ParseInt(parts[2]))

timeToMinutes(time) ==
  IF time = <<>> THEN Null
  ELSE IF Includes(time, "?") \/ Includes(time, "[") \/ Includes(time, "]")
  THEN Null
  ELSE PartsToMinutes(
         Split(InsertMissingColon(CleanTime(Trim(ToLowerCase(time)))), ":"))

\* the text without the padding of hours and minutes
minutesToTimeUnpadded(totalMinutes) ==
  (IF totalMinutes < 0 THEN <<"-">> ELSE <<>>)
    \o NatToStr(Abs(totalMinutes) \div 60) \o <<":">>
    \o NatToStr(Abs(totalMinutes) % 60)

minutesToTime(totalMinutes) ==
  LET isNegative == totalMinutes < 0
      absoluteMinutes == Abs(totalMinutes)
      hours == absoluteMinutes \div 60
      mins == absoluteMinutes % 60
  IN (IF isNegative THEN <<"-">> ELSE <<>>)
       \o PadStart2(NatToStr(hours)) \o <<":">> \o PadStart2(NatToStr(mins))

(***************************************************************************)
(* Normalization pipeline: sort, drop duplicate reads, merge coffee        *)
(* breaks, drop short work blocks, map to the six columns.                 *)
(***************************************************************************)
DuplicateThreshold == 5

CoffeeBreakThreshold == 20

NoiseThreshold == 10

\* .map(t => timeToMinutes(t)).filter(t => t !== null)
RECURSIVE ParseAll(_)
ParseAll(strs) ==
  IF strs = <<>> THEN <<>>
  ELSE SelectSeq(<<timeToMinutes(Head(strs))>>, LAMBDA m : m # Null)
         \o ParseAll(Tail(strs))

RECURSIVE InsertSorted(_, _)
InsertSorted(x, s) ==
  IF s = <<>> THEN <<x>>
  ELSE IF x < Head(s) THEN <<x>> \o s
  ELSE <<Head(s)>> \o InsertSorted(x, Tail(s))

\* the list left in the order of the card
LeftUnsorted(s) == s

\* arr.sort((a, b) => a - b)
RECURSIVE SortAscending(_)
SortAscending(s) ==
  IF s = <<>> THEN <<>>
  ELSE InsertSorted(s[Len(s)], SortAscending(SubSeq(s, 1, Len(s) - 1)))

\* the duplicate-read loop; i is the 0-based loop index
RECURSIVE RemoveDuplicateReads(_, _)
RemoveDuplicateReads(s, i) ==
  IF ~(i < Len(s) - 1) THEN s
  ELSE IF s[i + 2] - s[i + 1] < DuplicateThreshold
  THEN RemoveDuplicateReads(RemoveAt(s, i + 1, 1), i)
  ELSE RemoveDuplicateReads(s, i + 1)

\* the search for a coffee break with a threshold of a quarter of an hour
RECURSIVE FirstCoffeeGapBelowQuarter(_, _)
FirstCoffeeGapBelowQuarter(merged, i) ==
  IF ~(i < Len(merged) - 2) THEN -1
  ELSE IF merged[i + 2] - merged[i + 1] > 0
          /\ merged[i + 2] - merged[i + 1] < 15
  THEN i
  ELSE FirstCoffeeGapBelowQuarter(merged, i + 2)

\* the inner for loop of mergeCoffeeBreaks from 0-based index i: the index
\* of the first exit whose gap to the next entry is a coffee break, or -1
RECURSIVE FirstCoffeeGap(_, _)
FirstCoffeeGap(merged, i) ==
  IF ~(i < Len(merged) - 2) THEN -1
  ELSE LET gap == merged[i + 2] - merged[i + 1]
       IN IF gap > 0 /\ gap < CoffeeBreakThreshold THEN i
          ELSE FirstCoffeeGap(merged, i + 2)

\* one round of the merge, without the restart
MergeLoopOnce(merged) ==
  IF FirstCoffeeGap(merged, 1) = -1 THEN merged
  ELSE RemoveAt(merged, FirstCoffeeGap(merged, 1), 2)

RECURSIVE MergeLoop(_)
MergeLoop(merged) ==
  LET i == FirstCoffeeGap(merged, 1)
  IN IF i = -1 THEN merged ELSE MergeLoop(RemoveAt(merged, i, 2))

mergeCoffeeBreaks(times) ==
  IF Len(times) < 4 THEN times ELSE MergeLoop(times)

\* the inner for loop of removeShortWorkBlocks from 0-based index i
\* the noise filter looking at the first pair only
FirstShortBlockOfFirstPair(filtered, i) ==
  IF i < Len(filtered) - 1 /\ filtered[i + 2] - filtered[i + 1] < 10
  THEN i ELSE -1

RECURSIVE FirstShortBlock(_, _)
FirstShortBlock(filtered, i) ==
  IF ~(i < Len(filtered) - 1) THEN -1
  ELSE IF filtered[i + 2] - filtered[i + 1] < NoiseThreshold THEN i
  ELSE FirstShortBlock(filtered, i + 2)

RECURSIVE removeShortWorkBlocks(_)
removeShortWorkBlocks(times) ==
  LET i == FirstShortBlock(times, 0)
  IN IF i = -1 THEN times ELSE removeShortWorkBlocks(RemoveAt(times, i, 2))

\* steps 2-5, shared by processTimeEntries and processRawTimestampsToColumns
Pipeline(mins) ==
  removeShortWorkBlocks(
    mergeCoffeeBreaks(RemoveDuplicateReads(SortAscending(mins), 0)))

processTimeEntries(entry1, exit1, entry2, exit2, entry3, exit3) ==
  Pipeline(ParseAll(<<entry1, exit1, entry2, exit2, entry3, exit3>>))

\* step 6: mins[k] !== undefined ? minutesToTime(mins[k]) : ''
Column(mins, k) == IF k < Len(mins) THEN minutesToTime(mins[k + 1]) ELSE <<>>

ToColumns(mins) ==
  [entry1 |-> Column(mins, 0), exit1 |-> Column(mins, 1),
   entry2 |-> Column(mins, 2), exit2 |-> Column(mins, 3),
   entry3 |-> Column(mins, 4), exit3 |-> Column(mins, 5)]

processRawTimestampsToColumns(rawTimestamps) ==
  ToColumns(Pipeline(ParseAll(rawTimestamps)))

normalizeAndSortRow(entry1, exit1, entry2, exit2, entry3, exit3) ==
  ToColumns(processTimeEntries(entry1, exit1, entry2, exit2, entry3, exit3))

\* the summing loop of calculateDailyMinutes from 0-based index i
RECURSIVE SumBlocks(_, _, _)
SumBlocks(processed, i, loopLimit) ==
  IF ~(i < loopLimit) THEN 0
  ELSE (IF processed[i + 2] > processed[i + 1]
        THEN processed[i + 2] - processed[i + 1] ELSE 0)
       + SumBlocks(processed, i + 2, loopLimit)

\* const loopLimit = processed.length % 2 === 0 ? length : length - 1
SumPairs(processed) ==
  SumBlocks(processed, 0,
            IF Len(processed) % 2 = 0 THEN Len(processed)
            ELSE Len(processed) - 1)

calculateDailyMinutes(entry1, exit1, entry2, exit2, entry3, exit3) ==
  SumPairs(processTimeEntries(entry1, exit1, entry2, exit2, entry3, exit3))

(***************************************************************************)
(* Calendar arithmetic of the JavaScript Date objects the code builds:     *)
(* new Date(year, monthIndex, day) with day overflow, getDay(), setDate(). *)
(***************************************************************************)
IsLeapYear(y) == (y % 4 = 0 /\ y % 100 # 0) \/ y % 400 = 0

DaysInMonth(y, m) ==
  IF m = 2 THEN (IF IsLeapYear(y) THEN 29 ELSE 28)
  ELSE IF m \in {4, 6, 9, 11} THEN 30 ELSE 31

RECURSIVE DaysBeforeMonth(_, _)
DaysBeforeMonth(y, m) ==
  IF m <= 1 THEN 0 ELSE DaysBeforeMonth(y, m - 1) + DaysInMonth(y, m - 1)

\* 1-based ordinal of new Date(y, m - 1, d) counted from January 1st of y;
\* a day outside the month rolls over as the Date constructor does
DayOfYear(y, m, d) == DaysBeforeMonth(y, m) + d

\* new Date(y, 0, 1).getDay(), 0 = Sunday
Jan1Weekday(y) ==
  (1 + 5 * ((y - 1) % 4) + 4 * ((y - 1) % 100) + 6 * ((y - 1) % 400)) % 7

\* new Date(y, m - 1, d, 12, 0, 0).getDay()
GetDay(y, m, d) == (Jan1Weekday(y) + DayOfYear(y, m, d) + 6) % 7

\* Math.ceil(a / b) for b > 0
CeilDiv(a, b) == IF a % b = 0 THEN a \div b ELSE (a \div b) + 1

\* Math.ceil(((millis / 86400000) + onejan.getDay() + 1) / 7): d is at
\* 12:00 and onejan at 00:00, so millis / 86400000 is (ordinal - 1) + 1/2;
\* numerator and denominator are doubled to stay in the integers
WeekNum(y, m, d) ==
  CeilDiv(2 * (DayOfYear(y, m, d) - 1) + 1 + 2 * (Jan1Weekday(y) + 1), 14)

\* the month and day of the date with 1-based ordinal n of year y
RECURSIVE FromDayOfYear(_, _, _)
FromDayOfYear(y, n, m) ==
  IF m < 12 /\ n > DaysInMonth(y, m)
  THEN FromDayOfYear(y, n - DaysInMonth(y, m), m + 1)
  ELSE [month |-> m, day |-> n]

(***************************************************************************)
(* Holiday calendar.                                                       *)
(***************************************************************************)
\* h = (19 * a + b - d - g + 15) % 30 with d = floor(b / 4),
\* f = floor((b + 8) / 25) and g = floor((b - f + 1) / 3)
EasterH(a, b) ==
  (19 * a + b - (b \div 4) - ((b - ((b + 8) \div 25) + 1) \div 3) + 15) % 30

\* l = (32 + 2 * e + 2 * i - h - k) % 7 with e = b % 4, i = floor(c / 4)
\* and k = c % 4
EasterL(b, c, h) == (32 + 2 * (b % 4) + 2 * (c \div 4) - h - (c % 4)) % 7

\* m = floor((a + 11 * h + 22 * l) / 451)
EasterM(a, h, l) == (a + 11 * h + 22 * l) \div 451

\* new Date(year, month, day) from h, l and m, the month 1-based
EasterMonthDay(h, l, m) ==
  [month |-> (((h + l - 7 * m + 114) \div 31) - 1) + 1,
   day |-> ((h + l - 7 * m + 114) % 31) + 1]

EasterFromL(a, h, l) == EasterMonthDay(h, l, EasterM(a, h, l))

EasterFromH(a, b, c, h) == EasterFromL(a, h, EasterL(b, c, h))

\* the month (1-based) and day of Easter Sunday
getEasterDate(year) ==
  EasterFromH(year % 19, year \div 100, year % 100,
              EasterH(year % 19, year \div 100))

\* a mutation of addDays: the days are counted as in a year without 29
\* February
addDaysIgnoringLeapDay(year, date, days) ==
  FromDayOfYear(2023, DayOfYear(2023, date.month, date.day) + days, 1)


\* result.setDate(result.getDate() + days), within the year
addDays(year, date, days) ==
  FromDayOfYear(year, DayOfYear(year, date.month, date.day) + days, 1)

FixedHolidays ==
  << [day |-> 1, month |-> 1, name |-> "Confraternização Universal"],
     [day |-> 25, month |-> 1, name |-> "Aniversário de São Paulo"],
     [day |-> 21, month |-> 4, name |-> "Tiradentes"],
     [day |-> 1, month |-> 5, name |-> "Dia do Trabalho"],
     [day |-> 9, month |-> 7, name |-> "Revolução Constitucionalista"],
     [day |-> 7, month |-> 9, name |-> "Independência do Brasil"],
     [day |-> 12, month |-> 10, name |-> "Nossa Sra. Aparecida"],
     [day |-> 2, month |-> 11, name |-> "Finados"],
     [day |-> 15, month |-> 11, name |-> "Proclamação da República"],
     [day |-> 20, month |-> 11, name |-> "Dia da Consciência Negra"],
     [day |-> 25, month |-> 12, name |-> "Natal"] >>

\* holidays.push({day: date.getDate(), month: date.getMonth() + 1, name})
Movable(date, name) == [day |-> date.day, month |-> date.month, name |-> name]

\* the four movable holidays pushed after the fixed ones
MovableHolidays(year, easter) ==
  << Movable(easter, "Páscoa"),
     Movable(addDays(year, easter, -47), "Carnaval"),
     Movable(addDays(year, easter, -2), "Sexta-feira Santa"),
     Movable(addDays(year, easter, 60), "Corpus Christi") >>

getStandardHolidays(year) ==
  FixedHolidays \o MovableHolidays(year, getEasterDate(year))

\* array.find(pred): the first element of s satisfying the predicate, whose
\* value on s[i] is matches[i]; a sequence of length 0 (undefined) or 1
FindFirst(s, matches) ==
  IF \E i \in 1..Len(s) : matches[i]
  THEN <<s[CHOOSE i \in 1..Len(s) :
             matches[i] /\ \A j \in 1..(i - 1) : ~matches[j]]>>
  ELSE <<>>

\* the custom holiday looked up by day and month alone
FindCustomOfAnyYear(day, month, year, customHolidays) ==
  FindFirst(customHolidays,
            [i \in 1..Len(customHolidays) |->
               /\ customHolidays[i].day = day
               /\ customHolidays[i].month = month])

\* customHolidays.find(h => h.day === day && h.month === month
\*                            && (!h.year || h.year === year))
FindCustom(day, month, year, customHolidays) ==
  FindFirst(customHolidays,
            [i \in 1..Len(customHolidays) |->
               /\ customHolidays[i].day = day
               /\ customHolidays[i].month = month
               /\ (customHolidays[i].year = Null
                     \/ customHolidays[i].year = year)])

\* standard.find(h => h.day === day && h.month === month)
FindStandard(day, month, standard) ==
  FindFirst(standard,
            [i \in 1..Len(standard) |->
               standard[i].day = day /\ standard[i].month = month])

\* if (custom) return custom.name; ... return found ? found.name : null
NameOfFound(custom, found) ==
  IF custom # <<>> THEN <<custom[1].name>>
  ELSE IF found # <<>> THEN <<found[1].name>>
  ELSE <<>>

\* the holiday's name in a sequence of length 1, or <<>> for null
getHolidayName(day, month, year, customHolidays) ==
  NameOfFound(FindCustom(day, month, year, customHolidays),
              FindStandard(day, month, getStandardHolidays(year)))

(***************************************************************************)
(* The calculation effect of the editor: one full pass over an employee.   *)
(***************************************************************************)
Str0800 == <<"0", "8", ":", "0", "0">>

StrFOLGA == <<"F", "O", "L", "G", "A">>

\* const [yearStr, monthStr] = referenceMonth.split('-')
RefYear(refMonth) == ParseInt(Split(refMonth, "-")[1])

RefMonth(refMonth) == ParseInt(Split(refMonth, "-")[2])

\* emp.schedule[dayIndex] || '08:00', then timeToMinutes(...) || 0
OrZero(t) == IF t = Null THEN 0 ELSE t

TargetMinutes(schedule, dayIndex) ==
  OrZero(timeToMinutes(IF schedule[dayIndex] = <<>> THEN Str0800
                       ELSE schedule[dayIndex]))

\* !!holidayName
Truthy(holidayName) == holidayName # <<>> /\ holidayName[1] # ""

IsHolidayDay(dayNum, month, year, customHolidays) ==
  Truthy(getHolidayName(dayNum, month, year, customHolidays))

\* a mutation of RowDailyMinutes: the total of the previous run is added
RowDailyMinutesOverTotal(row) ==
  calculateDailyMinutes(row.entry1, row.exit1, row.entry2, row.exit2,
                        row.entry3, row.exit3)
  + (IF timeToMinutes(row.totalWorked) = Null THEN 0
     ELSE timeToMinutes(row.totalWorked))


RowDailyMinutes(row) ==
  calculateDailyMinutes(row.entry1, row.exit1, row.entry2, row.exit2,
                        row.entry3, row.exit3)

\* row.dayLabel?.toUpperCase().includes('FOLGA')
IsExplicitFolga(row) == IncludesStr(ToUpperCase(row.dayLabel), StrFOLGA)

\* a mutation of IsFaltaCandidate: a waived day stays a candidate
IsFaltaCandidateThoughAboned(target, mins, isHoliday, isAboned, isFolga) ==
  target > 0 /\ mins = 0 /\ ~isHoliday /\ ~isFolga


\* targetMinutes > 0 && dailyMins === 0 && !isHoliday && !row.isAboned
\*   && !isExplicitFolga
IsFaltaCandidate(targetMinutes, dailyMins, isHoliday, isAboned, isFolga) ==
  targetMinutes > 0 /\ dailyMins = 0 /\ ~isHoliday /\ ~isAboned /\ ~isFolga

\* First pass, one row with a day number: the row with its temporary
\* fields and its flags reset
EnrichedRow(row, dayIndex, isHoliday, weekNum, targetMinutes, dailyMins) ==
  [isSundayNoRest |-> FALSE, isCompensatoryRest |-> FALSE,
   _tempMins |-> dailyMins, _tempTarget |-> targetMinutes,
   _tempIsFalta |->
     IsFaltaCandidate(targetMinutes, dailyMins, isHoliday, row.isAboned,
                      IsExplicitFolga(row)),
   _tempWeek |-> weekNum, _tempDayIndex |-> dayIndex,
   _tempIsHoliday |-> isHoliday, _isCompensatoryRest |-> FALSE] @@ row

EnrichDay(row, schedule, year, month, customHolidays, dayNum, dayIndex) ==
  EnrichedRow(row, dayIndex,
              IsHolidayDay(dayNum, month, year, customHolidays),
              WeekNum(year, month, dayNum),
              TargetMinutes(schedule, dayIndex), RowDailyMinutes(row))

\* if (isNaN(dayNum)) return {...row, _tempMins: 0, ...}
EnrichParsed(row, schedule, year, month, customHolidays, dayNum) ==
  IF dayNum = Null
  THEN [_tempMins |-> 0, _tempTarget |-> 0, _tempIsFalta |-> FALSE,
        _tempWeek |-> 0, _tempDayIndex |-> 0, _tempIsHoliday |-> FALSE,
        _isCompensatoryRest |-> FALSE] @@ row
  ELSE EnrichDay(row, schedule, year, month, customHolidays, dayNum,
                 GetDay(year, month, dayNum))

\* First pass, one row
EnrichRow(row, schedule, year, month, customHolidays) ==
  EnrichParsed(row, schedule, year, month, customHolidays,
               ParseInt(row.day))

\* First pass, the weeksMap entry of one row: created on the first row of
\* its week, then updated; sundayRow is declared but never assigned
AddToWeeks(weeks, e) ==
  IF ParseInt(e.day) = Null THEN weeks
  ELSE
    LET known == \E i \in 1..Len(weeks) : weeks[i].weekNum = e._tempWeek
        base == IF known THEN weeks
                ELSE Append(weeks, [weekNum |-> e._tempWeek,
                                    hasHoliday |-> FALSE,
                                    holidayIsSunday |-> FALSE,
                                    hasFault |-> FALSE, workedDays |-> 0,
                                    sundayRow |-> <<>>])
        worked == e._tempMins > 0 \/ e.isAboned \/ IsExplicitFolga(e)
                    \/ e._tempIsHoliday
    IN [i \in 1..Len(base) |->
          IF base[i].weekNum # e._tempWeek THEN base[i]
          ELSE [base[i] EXCEPT
                  !.hasHoliday = @ \/ e._tempIsHoliday,
                  !.holidayIsSunday = @ \/ (e._tempIsHoliday
                                              /\ e._tempDayIndex = 0),
                  !.workedDays = IF worked THEN @ + 1 ELSE @]]

RECURSIVE BuildWeeks(_, _)
BuildWeeks(enriched, weeks) ==
  IF enriched = <<>> THEN weeks
  ELSE BuildWeeks(Tail(enriched), AddToWeeks(weeks, Head(enriched)))

\* Second pass, one week: a fault of the week becomes compensatory rest
\* when its Sunday was worked, else the Sunday is flagged
DsrForWeek(rows, weekData) ==
  IF weekData.sundayRow # <<>> /\ weekData.sundayRow[1]._tempMins > 0
  THEN
    LET sundayRow == weekData.sundayRow[1]
        IsCandidate(r) == r._tempWeek = sundayRow._tempWeek /\ r._tempIsFalta
                            /\ r._tempDayIndex # 0
        restCandidate ==
          FindFirst(rows, [i \in 1..Len(rows) |-> IsCandidate(rows[i])])
    IN IF restCandidate # <<>>
       THEN [i \in 1..Len(rows) |->
               IF rows[i].id = restCandidate[1].id
                  /\ ~restCandidate[1].manuallyDisabledDsr
               THEN [rows[i] EXCEPT !._tempIsFalta = FALSE,
                                    !._isCompensatoryRest = TRUE]
               ELSE rows[i]]
       ELSE [i \in 1..Len(rows) |->
               IF rows[i].id = sundayRow.id
               THEN [rows[i] EXCEPT !.isSundayNoRest = TRUE]
               ELSE rows[i]]
  ELSE rows

RECURSIVE SecondPass(_, _)
SecondPass(rows, weeks) ==
  IF weeks = <<>> THEN rows
  ELSE SecondPass(DsrForWeek(rows, Head(weeks)), Tail(weeks))

\* a mutation of ApplyForceDsr: a forced DSR leaves the fault in place
ApplyForceDsrNowhere(rows) == rows


\* if (r.forceDsr) r._tempIsFalta = false
ApplyForceDsr(rows) ==
  [i \in 1..Len(rows) |->
     IF rows[i].forceDsr THEN [rows[i] EXCEPT !._tempIsFalta = FALSE]
     ELSE rows[i]]

\* if (r._tempIsFalta) weeksMap.get(r._tempWeek).hasFault = true
MarkFaults(weeks, rows) ==
  [w \in 1..Len(weeks) |->
     [weeks[w] EXCEPT !.hasFault =
        @ \/ \E i \in 1..Len(rows) :
               rows[i]._tempIsFalta /\ rows[i]._tempWeek = weeks[w].weekNum]]

\* Third pass: the deficit a row carries
RowDeficit(row) ==
  IF row._tempIsFalta THEN 0
  ELSE IF row._tempMins < row._tempTarget /\ row._tempTarget > 0
          /\ ~row._tempIsHoliday /\ ~row._isCompensatoryRest
  THEN row._tempTarget - row._tempMins
  ELSE 0

\* row.sundayMode || 'auto'
SundayModeOf(row) == IF row.sundayMode = "unset" THEN "auto" ELSE row.sundayMode

\* the premium rule without the OFF position of the Sunday button
Is100PercentDayIgnoringOff(row) ==
  \/ SundayModeOf(row) = "extra"
  \/ row._tempIsHoliday
  \/ (row._tempDayIndex = 0 /\ row._tempTarget = 0)
  \/ row.isSundayNoRest

Is100PercentDay(row) ==
  LET isSunday == row._tempDayIndex = 0
      sundayMode == SundayModeOf(row)
  IN IF sundayMode = "extra" THEN TRUE
     ELSE IF sundayMode = "off" THEN FALSE
     ELSE row._tempIsHoliday \/ (isSunday /\ row._tempTarget = 0)
            \/ row.isSundayNoRest

RowSpecialExtras(row) == IF Is100PercentDay(row) THEN row._tempMins ELSE 0

\* normal overtime computed on premium days too
RowNormalExtrasOnEveryDay(row) ==
  IF row._tempMins > row._tempTarget THEN row._tempMins - row._tempTarget
  ELSE 0

RowNormalExtras(row) ==
  IF Is100PercentDay(row) THEN 0
  ELSE IF row._tempMins > row._tempTarget THEN row._tempMins - row._tempTarget
  ELSE 0

\* a mutation of FinalRow: the engine takes back the DSR mark of the row
FinalRowClearingDsr(row) ==
  [isSundayNoRest |-> row.isSundayNoRest,
   isCompensatoryRest |-> row._isCompensatoryRest,
   totalWorked |-> minutesToTime(row._tempMins),
   _calculatedNormal |-> RowNormalExtras(row),
   _calculatedSpecial |-> RowSpecialExtras(row),
   forceDsr |-> FALSE] @@ row


FinalRow(row) ==
  [isSundayNoRest |-> row.isSundayNoRest,
   isCompensatoryRest |-> row._isCompensatoryRest,
   totalWorked |-> minutesToTime(row._tempMins),
   _calculatedNormal |-> RowNormalExtras(row),
   _calculatedSpecial |-> RowSpecialExtras(row)] @@ row

\* the accumulation without the abono test
AccumulateAbonedToo(rows, terms) == SumSeq(terms)

\* if (!row.isAboned) acc += ...
Accumulate(rows, terms) ==
  SumSeq([i \in 1..Len(rows) |->
            IF rows[i].isAboned THEN 0 ELSE terms[i]])

FaltaTerm(row) == IF row._tempIsFalta THEN 1 ELSE 0

\* weeksMap.forEach: one lost rest day per week with a fault, a second one
\* if (week.hasHoliday && !week.holidayIsSunday)
WeekDsr(week) ==
  IF week.hasFault
  THEN 1 + (IF week.hasHoliday /\ ~week.holidayIsSunday THEN 1 ELSE 0)
  ELSE 0

\* the first pass over the rows of an employee
FirstPass(emp, year, month, customHolidays) ==
  [i \in 1..Len(emp.rows) |->
     EnrichRow(emp.rows[i], emp.schedule, year, month, customHolidays)]

\* the summary of the employee from the adjusted rows and the weeks
Summary(adjustedRows, weeks) ==
  [totalExtrasNormal |->
     Accumulate(adjustedRows,
                [i \in 1..Len(adjustedRows) |->
                   RowNormalExtras(adjustedRows[i])]),
   totalExtrasSpecial |->
     Accumulate(adjustedRows,
                [i \in 1..Len(adjustedRows) |->
                   RowSpecialExtras(adjustedRows[i])]),
   totalDeficitMinutes |->
     Accumulate(adjustedRows,
                [i \in 1..Len(adjustedRows) |-> RowDeficit(adjustedRows[i])]),
   totalFaltasDays |->
     Accumulate(adjustedRows,
                [i \in 1..Len(adjustedRows) |-> FaltaTerm(adjustedRows[i])]),
   totalDsrDescontado |->
     SumSeq([w \in 1..Len(weeks) |-> WeekDsr(weeks[w])])]

\* the third pass and the weekly aggregation
ThirdPass(emp, adjustedRows, weeksMap) ==
  [emp EXCEPT
     !.rows = [i \in 1..Len(adjustedRows) |-> FinalRow(adjustedRows[i])],
     !.summary = Summary(adjustedRows, MarkFaults(weeksMap, adjustedRows))]

\* the second pass and the forceDsr override over the weeks of the first
AdjustAndFinish(emp, enrichedRows, weeksMap) ==
  ThirdPass(emp, ApplyForceDsr(SecondPass(enrichedRows, weeksMap)),
            weeksMap)

Passes(emp, enrichedRows) ==
  AdjustAndFinish(emp, enrichedRows, BuildWeeks(enrichedRows, <<>>))

\* the body of prevEmployees.map(emp => ...)
Recalculate(emp, refMonth, customHolidays) ==
  IF emp.status = "processing" THEN emp
  ELSE Passes(emp, FirstPass(emp, RefYear(refMonth), RefMonth(refMonth),
                             customHolidays))

(***************************************************************************)
(* The editor: state, inputs and bounds.                                   *)
(***************************************************************************)
VARIABLES
  initialData,       \* prop: the rows scanned by the upload screen
  employees,         \* EmployeeSession[]
  activeEmployeeId,
  referenceMonth,    \* "YYYY-MM"
  customHolidays,    \* Holiday[]
  effectDeps,        \* dependency list of the calculation effect's last run
  userEdits          \* number of counted user mutations so far

editorVars == <<initialData, employees, activeEmployeeId, referenceMonth,
                customHolidays, effectDeps, userEdits>>

\* the normalization functions applied to one list of punches
VARIABLES
  rawTimestamps,     \* the punch strings as read from the card
  columns,           \* the six columns of the normalized row
  renormalized,      \* the six columns after normalizing the columns again
  dailyMinutes,      \* calculateDailyMinutes of the punches, Null before
  normPhase          \* "idle", "raw", "normalized" or "renormalized"

normVars == <<rawTimestamps, columns, renormalized, dailyMinutes, normPhase>>

\* the two time conversions applied to one text or one minute value
VARIABLES
  timeText,          \* the text handed to timeToMinutes
  minuteValue,       \* the minutes parsed or handed to minutesToTime
  textBack,          \* the text minutesToTime returned
  minuteBack,        \* the minutes parsed from textBack
  holidayQuery,      \* day, month, year and custom holidays looked up
  holidayFound,      \* the name getHolidayName returned: <<name>> or <<>>
  warnedCells,       \* the six time cells of the row the table renders
  warnedTotal,       \* the worked minutes the table passes, Null before
  laborWarnings,     \* the set of warnings getLaborWarnings returned
  calendarQuery,     \* the year, month and days, or the year, looked up
  calendarAnswer,    \* the week numbers, or the holidays of the year
  scannedRows,       \* the rows the OCR service read from the card
  mergedRows,        \* the rows deduplicateAndMergeRows returned
  utilPhase          \* "idle", "text", "parsed", "parsedFormatted",
                     \* "minutes", "formatted", "formattedParsed",
                     \* "holiday", "holidayNamed", "row", "warned",
                     \* "days", "weeks", "year" or "holidays"

convVars == <<timeText, minuteValue, textBack, minuteBack>>

holidayVars == <<holidayQuery, holidayFound>>

warnVars == <<warnedCells, warnedTotal, laborWarnings>>

calendarVars == <<calendarQuery, calendarAnswer>>

mergeVars == <<scannedRows, mergedRows>>

utilVars == <<convVars, holidayVars, warnVars, calendarVars, mergeVars,
              utilPhase>>

\* one invocation of parseTimecardImage
VARIABLES
  attempt,           \* the loop variable of the retry loop
  serviceCalls,      \* how many times generateContent was called
  failures,          \* the errors caught so far, oldest first
  lastError,         \* the variable lastError: <<error>> or <<>>
  outcome,           \* <<"returned", rows>>, <<"thrown", error>> or <<>>
  retryPhase         \* "idle", "start", "awaiting", "delay" or "done"

retryVars == <<attempt, serviceCalls, failures, lastError, outcome,
               retryPhase>>

\* the calls of processFiles, oldest first
VARIABLES
  requests           \* the closure of each call and what the service answered

requestVars == <<requests>>

RequestIdle == requests = <<>>

nonEditorVars == <<normVars, utilVars, retryVars, requestVars>>

nonSessionVars == <<normVars, utilVars, retryVars>>

nonNormVars == <<editorVars, utilVars, retryVars, requestVars>>

nonUtilVars == <<editorVars, normVars, retryVars, requestVars>>

nonRetryVars == <<editorVars, normVars, utilVars, requestVars>>

nonConvVars == <<nonUtilVars, holidayVars, warnVars, calendarVars, mergeVars>>

nonHolidayVars == <<nonUtilVars, convVars, warnVars, calendarVars, mergeVars>>

nonWarnVars == <<nonUtilVars, convVars, holidayVars, calendarVars, mergeVars>>

nonCalendarVars == <<nonUtilVars, convVars, holidayVars, warnVars, mergeVars>>

nonMergeVars == <<nonUtilVars, convVars, holidayVars, warnVars, calendarVars>>


\* user mutations explored per behaviour
MaxEdits == 3

Str(h, m) == minutesToTime(h * 60 + m)

Str0000 == <<"0", "0", ":", "0", "0">>

\* schedule of a new EmployeeSession
DefaultSchedule == [d \in 0..6 |-> IF d \in {0, 6} THEN Str0000 ELSE Str0800]

EmptySummary ==
  [totalExtrasNormal |-> 0, totalExtrasSpecial |-> 0,
   totalDeficitMinutes |-> 0, totalFaltasDays |-> 0,
   totalDsrDescontado |-> 0]

\* a TimeRow as the upload screen builds it from one OCR row
NewRow(id, day, dayLabel, punches) ==
  LET normalized ==
        normalizeAndSortRow(punches[1], punches[2], punches[3], punches[4],
                            punches[5], punches[6])
  IN [id |-> id, day |-> IF day = <<>> THEN <<"0", "0">> ELSE day,
      dayLabel |-> dayLabel,
      entry1 |-> normalized.entry1, exit1 |-> normalized.exit1,
      entry2 |-> normalized.entry2, exit2 |-> normalized.exit2,
      entry3 |-> normalized.entry3, exit3 |-> normalized.exit3,
      totalWorked |-> Str0000, isWeekend |-> FALSE,
      isAboned |-> FALSE, sundayMode |-> "unset", forceDsr |-> FALSE,
      manuallyDisabledDsr |-> FALSE, isSundayNoRest |-> FALSE,
      isCompensatoryRest |-> FALSE]

NoPunches == <<<<>>, <<>>, <<>>, <<>>, <<>>, <<>>>>

Punches2(a, b) == <<a, b, <<>>, <<>>, <<>>, <<>>>>

\* OCR results handed over by the upload screen
InitialDataSets ==
  { << NewRow("r1", <<"2", "0">>, <<"D", "O", "M">>,
              Punches2(Str(12, 0), Str(8, 0))),
       NewRow("r2", <<"2", "1">>, <<>>, NoPunches),
       NewRow("r3", <<"2", "2">>, <<>>, NoPunches) >>,
    << NewRow("r1", <<"2", "2">>, <<>>, Punches2(Str(8, 0), Str(17, 30))),
       NewRow("r2", <<"2", "3">>, <<"f", "o", "l", "g", "a">>, NoPunches),
       NewRow("r3", <<"?">>, <<>>, Punches2(Str(8, 0), Str(12, 0))) >>,
    << NewRow("r1", <<"1", "9">>, <<>>, NoPunches),
       NewRow("r2", <<"2", "0">>, <<>>, NoPunches),
       NewRow("r3", <<"2", "1">>, <<>>, Punches2(Str(8, 0), Str(17, 30))) >> }

\* the months offered by the month selector
MonthOptions == { <<"2", "0", "2", "5", "-", "0", "4">>,
                  <<"2", "0", "2", "5", "-", "0", "6">> }

\* what the user types into a time cell: the field and the text
TimeInputs == { <<"entry1", <<"0", "8", "0", "0">>>>,
                <<"exit1", <<"1", "7", ":", "3", "0", "h">>>>,
                <<"exit1", <<>>>> }

\* what the user types into the schedule header: the weekday and the text
ScheduleInputs == { <<0, <<"0", "8", "0", "0">>>>,
                    <<2, Str0000>>,
                    <<2, <<>>>> }

\* what the user types into the holiday form: the name and the date
HolidayInputs == { <<"Feriado Municipal", <<"2", "2", "/", "0", "4">>>> }

(***************************************************************************)
(* The calculation effect and its dependency list.                         *)
(***************************************************************************)
\* employees.map(e => e.schedule).join(): every schedule object prints as
\* "[object Object]", so the string records only how many employees exist
ScheduleDep(emps) == [i \in 1..Len(emps) |-> "[object Object]"]

\* employees.map(e => JSON.stringify(e.rows)).join()
RowsDep(emps) == [i \in 1..Len(emps) |-> emps[i].rows]

Deps == <<referenceMonth, customHolidays, ScheduleDep(employees),
          RowsDep(employees)>>

\* no run of the calculation effect is pending
Quiescent == Deps = effectDeps

\* the state update of the effect
RecalculateAll(emps, refMonth, holidays) ==
  [i \in 1..Len(emps) |-> Recalculate(emps[i], refMonth, holidays)]

\* the effect runs after a render whose dependency list changed
Recompute ==
  /\ ~Quiescent
  /\ effectDeps' = Deps
  /\ employees' = IF Len(employees) = 0 THEN employees
                  ELSE RecalculateAll(employees, referenceMonth,
                                      customHolidays)
  /\ UNCHANGED <<initialData, activeEmployeeId, referenceMonth,
                 customHolidays, userEdits>>
  /\ UNCHANGED nonEditorVars

\* the effect that creates the first employee from the props
\* the prop imageUrls: the card scanned by the upload screen
InitialImages == <<"card-0">>

InitializeFirstEmployee ==
  /\ Len(initialData) > 0
  /\ Len(employees) = 0
  /\ employees' = << [id |-> "emp-1", rows |-> initialData,
                      imageUrls |-> InitialImages,
                      schedule |-> DefaultSchedule, status |-> "ready",
                      summary |-> EmptySummary] >>
  /\ activeEmployeeId' = "emp-1"
  /\ UNCHANGED <<initialData, referenceMonth, customHolidays, effectDeps,
                 userEdits>>
  /\ UNCHANGED nonEditorVars

(***************************************************************************)
(* What the table renders for a row: it decides which controls exist.      *)
(***************************************************************************)
\* employees.find(e => e.id === activeEmployeeId)
FindEmployee(emps, id) ==
  FindFirst(emps, [i \in 1..Len(emps) |-> emps[i].id = id])

\* the employee on screen: the active one, else the first
ShownEmployee ==
  IF FindEmployee(employees, activeEmployeeId) # <<>>
  THEN FindEmployee(employees, activeEmployeeId)
  ELSE IF Len(employees) > 0 THEN <<employees[1]>> ELSE <<>>

RenderDayParsed(row) == ParseInt(row.day) # Null

RenderIsSunday(row) ==
  /\ RenderDayParsed(row)
  /\ GetDay(RefYear(referenceMonth), RefMonth(referenceMonth),
            ParseInt(row.day)) = 0

\* timeToMinutes(activeEmp.schedule[getDay()] || '00:00') || 0
ScheduleOrMidnight(scheduleTime) ==
  IF scheduleTime = <<>> THEN Str0000 ELSE scheduleTime

RenderTarget(emp, row) ==
  IF ~RenderDayParsed(row) THEN 0
  ELSE OrZero(timeToMinutes(ScheduleOrMidnight(
         emp.schedule[GetDay(RefYear(referenceMonth),
                             RefMonth(referenceMonth),
                             ParseInt(row.day))])))

\* timeToMinutes(row.totalWorked) || 0
RenderDailyMins(row) == OrZero(timeToMinutes(row.totalWorked))

RenderIsHoliday(row) ==
  IsHolidayDay(ParseInt(row.day), RefMonth(referenceMonth),
               RefYear(referenceMonth), customHolidays)

\* const isDsrDay = row.forceDsr || row.isCompensatoryRest
RenderIsDsrDay(row) == row.forceDsr \/ row.isCompensatoryRest

\* the six time inputs exist unless the row shows as a rest day, and are
\* disabled on a waived row
TimeInputEnabled(row) == ~RenderIsDsrDay(row) /\ ~row.isAboned

\* the AUTO / EXTRA / OFF button
SundayButtonShown(emp, row) ==
  RenderIsSunday(row) /\ RenderTarget(emp, row) > 0 /\ ~row.isAboned

\* the DSR / 1 DIA button of the last column
DsrButtonEnabled(emp, row) ==
  IF row.forceDsr \/ row.manuallyDisabledDsr \/ row.isCompensatoryRest
  THEN ~row.isAboned
  ELSE /\ RenderTarget(emp, row) > 0
       /\ RenderDailyMins(row) = 0
       /\ ~RenderIsHoliday(row)
       /\ ~IncludesStr(row.dayLabel, StrFOLGA)
       /\ ~row.isAboned

(***************************************************************************)
(* Handlers.                                                               *)
(***************************************************************************)
\* setEmployees(prev => prev.map(emp => emp.id === activeEmployeeId ? ...))
\* updated[i] is the update applied to emps[i]
updateActiveEmployee(emps, updated) ==
  [i \in 1..Len(emps) |->
     IF emps[i].id = activeEmployeeId THEN updated[i] ELSE emps[i]]

\* activeEmp.rows.map(row => row.id === rowId ? change(row) : row)
\* changed[i] is the change applied to rows[i]
MapRow(rows, rowId, changed) ==
  [i \in 1..Len(rows) |->
     IF rows[i].id = rowId THEN changed[i] ELSE rows[i]]

\* value.replace(/[^\d:]/g, '')
RECURSIVE KeepDigitsAndColons(_)
KeepDigitsAndColons(s) ==
  IF s = <<>> THEN <<>>
  ELSE (IF IsDigit(Head(s)) \/ Head(s) = ":" THEN <<Head(s)>> ELSE <<>>)
       \o KeepDigitsAndColons(Tail(s))

\* the clean-up shared by handleTimeInput and handleScheduleChange
CleanTimeInput(value) ==
  LET clean1 == KeepDigitsAndColons(value)
      clean2 == IF ~Includes(clean1, ":") /\ Len(clean1) > 2
                THEN Slice(clean1, 0, 2) \o <<":">> \o Slice(clean1, 2, Len(clean1))
                ELSE clean1
  IN IF Len(clean2) > 5 THEN Slice(clean2, 0, 5) ELSE clean2

SetField(row, field, value) ==
  CASE field = "entry1" -> [row EXCEPT !.entry1 = value]
    [] field = "exit1" -> [row EXCEPT !.exit1 = value]
    [] field = "entry2" -> [row EXCEPT !.entry2 = value]
    [] field = "exit2" -> [row EXCEPT !.exit2 = value]
    [] field = "entry3" -> [row EXCEPT !.entry3 = value]
    [] field = "exit3" -> [row EXCEPT !.exit3 = value]

\* a user event is handled once the pending effects have run
UserCanAct == Quiescent /\ userEdits < MaxEdits /\ ShownEmployee # <<>>

handleTimeInput(rowId, field, value) ==
  /\ UserCanAct
  /\ \E r \in 1..Len(ShownEmployee[1].rows) :
       /\ ShownEmployee[1].rows[r].id = rowId
       /\ TimeInputEnabled(ShownEmployee[1].rows[r])
  /\ LET activeEmp == FindEmployee(employees, activeEmployeeId)
         Change(row) == SetField(row, field, CleanTimeInput(value))
         Update(emp) ==
           [emp EXCEPT !.rows = MapRow(activeEmp[1].rows, rowId,
                                       [i \in 1..Len(activeEmp[1].rows) |->
                                          Change(activeEmp[1].rows[i])])]
     IN employees' = IF activeEmp = <<>> THEN employees
                     ELSE updateActiveEmployee(
                            employees,
                            [i \in 1..Len(employees) |->
                               Update(employees[i])])
  /\ userEdits' = userEdits + 1
  /\ UNCHANGED <<initialData, activeEmployeeId, referenceMonth,
                 customHolidays, effectDeps>>
  /\ UNCHANGED nonEditorVars

toggleAbono(rowId) ==
  /\ UserCanAct
  /\ \E r \in 1..Len(ShownEmployee[1].rows) :
       ShownEmployee[1].rows[r].id = rowId
  /\ LET activeEmp == FindEmployee(employees, activeEmployeeId)
         Change(row) == [row EXCEPT !.isAboned = ~row.isAboned]
         Update(emp) ==
           [emp EXCEPT !.rows = MapRow(activeEmp[1].rows, rowId,
                                       [i \in 1..Len(activeEmp[1].rows) |->
                                          Change(activeEmp[1].rows[i])])]
     IN employees' = IF activeEmp = <<>> THEN employees
                     ELSE updateActiveEmployee(
                            employees,
                            [i \in 1..Len(employees) |->
                               Update(employees[i])])
  /\ userEdits' = userEdits + 1
  /\ UNCHANGED <<initialData, activeEmployeeId, referenceMonth,
                 customHolidays, effectDeps>>
  /\ UNCHANGED nonEditorVars

\* Cycle: Auto -> Extra -> Off -> Auto
\* a mutation of NextSundayMode: the cycle without the OFF position
NextSundayModeWithoutOff(row) ==
  LET current == SundayModeOf(row)
  IN IF current = "auto" THEN "extra" ELSE "auto"


NextSundayMode(row) ==
  LET current == SundayModeOf(row)
  IN IF current = "auto" THEN "extra"
     ELSE IF current = "extra" THEN "off"
     ELSE "auto"

\* the three modes bound the clicks, which userEdits does not count
cycleSundayMode(rowId) ==
  /\ Quiescent
  /\ ShownEmployee # <<>>
  /\ \E r \in 1..Len(ShownEmployee[1].rows) :
       /\ ShownEmployee[1].rows[r].id = rowId
       /\ SundayButtonShown(ShownEmployee[1], ShownEmployee[1].rows[r])
  /\ LET activeEmp == FindEmployee(employees, activeEmployeeId)
         Change(row) == [row EXCEPT !.sundayMode = NextSundayMode(row)]
         Update(emp) ==
           [emp EXCEPT !.rows = MapRow(activeEmp[1].rows, rowId,
                                       [i \in 1..Len(activeEmp[1].rows) |->
                                          Change(activeEmp[1].rows[i])])]
     IN employees' = IF activeEmp = <<>> THEN employees
                     ELSE updateActiveEmployee(
                            employees,
                            [i \in 1..Len(employees) |->
                               Update(employees[i])])
  /\ UNCHANGED <<initialData, activeEmployeeId, referenceMonth,
                 customHolidays, effectDeps, userEdits>>
  /\ UNCHANGED nonEditorVars

\* the updates cycleDsrStatus spreads over the row
DsrStatusUpdate(row) ==
  IF row.forceDsr
  THEN [row EXCEPT !.forceDsr = FALSE, !.manuallyDisabledDsr = FALSE]
  ELSE IF row.manuallyDisabledDsr
  THEN [row EXCEPT !.manuallyDisabledDsr = FALSE, !.forceDsr = TRUE]
  ELSE IF row.isCompensatoryRest
  THEN [row EXCEPT !.manuallyDisabledDsr = TRUE]
  ELSE [row EXCEPT !.forceDsr = TRUE]

cycleDsrStatus(rowId) ==
  /\ UserCanAct
  /\ \E r \in 1..Len(ShownEmployee[1].rows) :
       /\ ShownEmployee[1].rows[r].id = rowId
       /\ DsrButtonEnabled(ShownEmployee[1], ShownEmployee[1].rows[r])
  /\ LET activeEmp == FindEmployee(employees, activeEmployeeId)
         Update(emp) ==
           [emp EXCEPT !.rows = MapRow(activeEmp[1].rows, rowId,
                                       [i \in 1..Len(activeEmp[1].rows) |->
                                          DsrStatusUpdate(
                                            activeEmp[1].rows[i])])]
     IN employees' = IF activeEmp = <<>> THEN employees
                     ELSE updateActiveEmployee(
                            employees,
                            [i \in 1..Len(employees) |->
                               Update(employees[i])])
  /\ userEdits' = userEdits + 1
  /\ UNCHANGED <<initialData, activeEmployeeId, referenceMonth,
                 customHolidays, effectDeps>>
  /\ UNCHANGED nonEditorVars

handleScheduleChange(dayIndex, value) ==
  /\ UserCanAct
  /\ LET activeEmp == FindEmployee(employees, activeEmployeeId)
         Update(emp) ==
           [emp EXCEPT !.schedule =
              [activeEmp[1].schedule EXCEPT
                 ![dayIndex] = CleanTimeInput(value)]]
     IN employees' = IF activeEmp = <<>> THEN employees
                     ELSE updateActiveEmployee(
                            employees,
                            [i \in 1..Len(employees) |->
                               Update(employees[i])])
  /\ userEdits' = userEdits + 1
  /\ UNCHANGED <<initialData, activeEmployeeId, referenceMonth,
                 customHolidays, effectDeps>>
  /\ UNCHANGED nonEditorVars

\* the month selector's onChange
setReferenceMonth(value) ==
  /\ UserCanAct
  /\ value # referenceMonth
  /\ referenceMonth' = value
  /\ userEdits' = userEdits + 1
  /\ UNCHANGED <<initialData, employees, activeEmployeeId, customHolidays,
                 effectDeps>>
  /\ UNCHANGED nonEditorVars

\* a year that is NaN: it equals no year, and is not undefined
NaN == -2000000

\* parts[2] ? parseInt(parts[2], 10) : undefined, NaN kept apart
NumberOrNaN(n) == IF n = Null THEN NaN ELSE n

\* generateId(): an id no holiday of the list carries
FreshHolidayId(holidays) ==
  CHOOSE n \in 1..(Len(holidays) + 1) :
    \A i \in 1..Len(holidays) : holidays[i].id # n

handleAddHoliday(newHolidayName, newHolidayDateStr) ==
  /\ UserCanAct
  /\ newHolidayName # "" /\ newHolidayDateStr # <<>>
  /\ LET parts == Split(newHolidayDateStr, "/")
     IN /\ Len(parts) >= 2
        /\ LET day == ParseInt(parts[1])
               month == ParseInt(parts[2])
               year == IF Len(parts) >= 3 /\ parts[3] # <<>>
                       THEN NumberOrNaN(ParseInt(parts[3])) ELSE Null
           IN /\ ~(day = Null \/ month = Null \/ day < 1 \/ day > 31
                     \/ month < 1 \/ month > 12)
              /\ customHolidays' =
                   Append(customHolidays,
                          [id |-> FreshHolidayId(customHolidays),
                           day |-> day, month |-> month, year |-> year,
                           name |-> newHolidayName])
  /\ userEdits' = userEdits + 1
  /\ UNCHANGED <<initialData, employees, activeEmployeeId, referenceMonth,
                 effectDeps>>
  /\ UNCHANGED nonEditorVars

handleDeleteHoliday(id) ==
  /\ UserCanAct
  /\ \E i \in 1..Len(customHolidays) : customHolidays[i].id = id
  /\ customHolidays' = SelectSeq(customHolidays, LAMBDA h : h.id # id)
  /\ userEdits' = userEdits + 1
  /\ UNCHANGED <<initialData, employees, activeEmployeeId, referenceMonth,
                 effectDeps>>
  /\ UNCHANGED nonEditorVars

(***************************************************************************)
(* Adding the images of further cards to the employee on screen.           *)
(***************************************************************************)
\* rows an employee holds at most, over all uploads
MaxRows == 4

\* generateId() of the k-th row an employee receives
RowIdList == <<"r1", "r2", "r3", "r4", "r5", "r6">>

\* a TimeRow as processFiles builds it from one row of the OCR result
ProcessedRow(id, row) ==
  LET normalized == processRawTimestampsToColumns(row.timestamps)
  IN [id |-> id, day |-> IF row.day = <<>> THEN <<"0", "0">> ELSE row.day,
      dayLabel |-> row.dayLabel,
      entry1 |-> normalized.entry1, exit1 |-> normalized.exit1,
      entry2 |-> normalized.entry2, exit2 |-> normalized.exit2,
      entry3 |-> normalized.entry3, exit3 |-> normalized.exit3,
      totalWorked |-> Str0000, isWeekend |-> row.isWeekend,
      isAboned |-> FALSE, sundayMode |-> "unset", forceDsr |-> FALSE,
      manuallyDisabledDsr |-> FALSE, isSundayNoRest |-> FALSE,
      isCompensatoryRest |-> FALSE]

\* rawRows.map(row => ...), the ids following those of the rows held
ProcessedRows(rawRows, held) ==
  [i \in 1..Len(rawRows) |-> ProcessedRow(RowIdList[held + i], rawRows[i])]

\* what parseTimecardImage returns for the added images: one row per day,
\* day numbers as String(dayInt), ascending
AppendedDataSets ==
  { << [day |-> <<"2", "1">>, dayLabel |-> <<>>,
        timestamps |-> <<Str(13, 0), Str(17, 0)>>, isWeekend |-> FALSE] >>,
    << [day |-> <<"2", "5">>,
        dayLabel |-> <<"F", "E", "R", "I", "A", "D", "O">>,
        timestamps |-> <<>>, isWeekend |-> TRUE] >>,
    << [day |-> <<"3", "1">>, dayLabel |-> <<>>,
        timestamps |-> <<>>, isWeekend |-> FALSE] >> }

\* the stable sort by parseInt(a.day) - parseInt(b.day): row goes behind
\* the rows whose day is not greater
RECURSIVE InsertByDay(_, _)
InsertByDay(row, sorted) ==
  IF sorted = <<>> THEN <<row>>
  ELSE IF ParseInt(Head(sorted).day) <= ParseInt(row.day)
       THEN <<Head(sorted)>> \o InsertByDay(row, Tail(sorted))
       ELSE <<row>> \o sorted

RECURSIVE SortByDay(_)
SortByDay(rows) ==
  IF rows = <<>> THEN <<>>
  ELSE InsertByDay(rows[Len(rows)], SortByDay(SubSeq(rows, 1, Len(rows) - 1)))

\* an upload is running for the employee: processFiles awaits the OCR
IsProcessing(emp) == emp.status = "processing"

\* processFiles(files, true) up to the OCR call
processFilesAppend ==
  /\ UserCanAct
  /\ FindEmployee(employees, activeEmployeeId) # <<>>
  /\ ~IsProcessing(FindEmployee(employees, activeEmployeeId)[1])
  /\ employees' = updateActiveEmployee(
                     employees,
                     [i \in 1..Len(employees) |->
                        [employees[i] EXCEPT !.status = "processing"]])
  /\ userEdits' = userEdits + 1
  /\ UNCHANGED <<initialData, activeEmployeeId, referenceMonth,
                 customHolidays, effectDeps>>
  /\ UNCHANGED nonEditorVars

\* processFiles(files, true) once the OCR has answered with rawRows
\* base64Results of the appended card
AppendedImages == <<"card-a">>

appendProcessedRows(rawRows) ==
  /\ Quiescent
  /\ \E e \in 1..Len(employees) :
       /\ IsProcessing(employees[e])
       /\ Len(employees[e].rows) + Len(rawRows) <= MaxRows
       /\ employees' =
            [employees EXCEPT ![e] =
               [employees[e] EXCEPT
                  !.rows = SortByDay(
                             employees[e].rows
                             \o ProcessedRows(rawRows,
                                              Len(employees[e].rows))),
                  !.imageUrls = @ \o AppendedImages,
                  !.status = "ready"]]
  /\ UNCHANGED <<initialData, activeEmployeeId, referenceMonth,
                 customHolidays, effectDeps, userEdits>>
  /\ UNCHANGED nonEditorVars

\* processFiles(files, true) once the OCR has thrown or returned no row
appendFailed ==
  /\ Quiescent
  /\ \E e \in 1..Len(employees) :
       /\ IsProcessing(employees[e])
       /\ employees' = [employees EXCEPT ![e] =
                          [employees[e] EXCEPT !.status = "error"]]
  /\ UNCHANGED <<initialData, activeEmployeeId, referenceMonth,
                 customHolidays, effectDeps, userEdits>>
  /\ UNCHANGED nonEditorVars

(***************************************************************************)
(* The editor as a state machine.                                          *)
(***************************************************************************)
RowIds == {RowIdList[k] : k \in 1..Len(RowIdList)}

EditorInit ==
  /\ initialData \in InitialDataSets
  /\ employees = <<>>
  /\ activeEmployeeId = ""
  /\ referenceMonth \in MonthOptions
  /\ customHolidays = <<>>
  /\ effectDeps = Deps
  /\ userEdits = 0

EditorNext ==
  \/ InitializeFirstEmployee
  \/ Recompute
  \/ \E rowId \in RowIds, input \in TimeInputs :
       handleTimeInput(rowId, input[1], input[2])
  \/ \E rowId \in RowIds : toggleAbono(rowId)
  \/ \E rowId \in RowIds : cycleSundayMode(rowId)
  \/ \E rowId \in RowIds : cycleDsrStatus(rowId)
  \/ \E input \in ScheduleInputs : handleScheduleChange(input[1], input[2])
  \/ \E value \in MonthOptions : setReferenceMonth(value)
  \/ \E input \in HolidayInputs : handleAddHoliday(input[1], input[2])
  \/ \E id \in 1..MaxEdits : handleDeleteHoliday(id)

(***************************************************************************)
(* The normalization functions applied to one list of punches.             *)
(***************************************************************************)
vars == <<editorVars, normVars, utilVars, retryVars, requestVars>>

\* punches of one card row explored per behaviour
MaxPunches == 7

\* punch texts as the OCR returns them
PunchList ==
  << <<"0", "8", ":", "0", "0">>, <<"0", "8", "0", "0">>,
     <<"0", "8", ":", "0", "3">>, <<"0", "8", ":", "1", "5">>,
     <<"1", "0", ":", "0", "0">>, <<"1", "0", ":", "1", "5">>,
     <<"1", "0", ":", "1", "8">>, <<"1", "2", ":", "0", "0">>,
     <<"1", "2", ":", "0", "8">>, <<"1", "2", "h", "1", "5">>,
     <<"1", "4", ":", "0", "0">>, <<"O", "8", ":", "S", "O">>,
     <<"[", "?", "]">> >>

\* the punches of PunchList at the positions picked, in list order
RECURSIVE Pick(_, _)
Pick(picked, k) ==
  IF k > Len(PunchList) THEN <<>>
  ELSE (IF k \in picked THEN <<PunchList[k]>> ELSE <<>>) \o Pick(picked, k + 1)

Reverse(s) == [i \in 1..Len(s) |-> s[Len(s) + 1 - i]]

\* the cell of a row at 0-based position k, '' when the card has no punch
Cell(punches, k) == IF k < Len(punches) THEN punches[k + 1] ELSE <<>>

ColumnsOf(row) ==
  <<row.entry1, row.exit1, row.entry2, row.exit2, row.entry3, row.exit3>>

NormIdle ==
  /\ rawTimestamps = <<>>
  /\ columns = ToColumns(<<>>)
  /\ renormalized = ToColumns(<<>>)
  /\ dailyMinutes = Null
  /\ normPhase = "idle"

EditorIdle ==
  /\ initialData = <<>>
  /\ employees = <<>>
  /\ activeEmployeeId = ""
  /\ referenceMonth = <<"2", "0", "2", "5", "-", "0", "4">>
  /\ customHolidays = <<>>
  /\ effectDeps = Deps
  /\ userEdits = 0

NormInit ==
  /\ \E picked \in SUBSET (1..Len(PunchList)) :
       /\ Cardinality(picked) <= MaxPunches
       /\ rawTimestamps \in {Pick(picked, 1), Reverse(Pick(picked, 1))}
  /\ columns = ToColumns(<<>>)
  /\ renormalized = ToColumns(<<>>)
  /\ dailyMinutes = Null
  /\ normPhase = "raw"

\* the upload screen normalizes the six cells of an OCR row
NormalizeRow ==
  /\ normPhase = "raw"
  /\ Len(rawTimestamps) <= 6
  /\ columns' = normalizeAndSortRow(
                  Cell(rawTimestamps, 0), Cell(rawTimestamps, 1),
                  Cell(rawTimestamps, 2), Cell(rawTimestamps, 3),
                  Cell(rawTimestamps, 4), Cell(rawTimestamps, 5))
  /\ normPhase' = "normalized"
  /\ UNCHANGED <<rawTimestamps, renormalized, dailyMinutes>>
  /\ UNCHANGED nonNormVars

\* the editor maps the raw timestamps of an added card to the columns
ProcessRawTimestamps ==
  /\ normPhase = "raw"
  /\ columns' = processRawTimestampsToColumns(rawTimestamps)
  /\ normPhase' = "normalized"
  /\ UNCHANGED <<rawTimestamps, renormalized, dailyMinutes>>
  /\ UNCHANGED nonNormVars

\* the normalized columns are normalized again
Renormalize ==
  /\ normPhase = "normalized"
  /\ renormalized' = normalizeAndSortRow(
                       columns.entry1, columns.exit1, columns.entry2,
                       columns.exit2, columns.entry3, columns.exit3)
  /\ normPhase' = "renormalized"
  /\ UNCHANGED <<rawTimestamps, columns, dailyMinutes>>
  /\ UNCHANGED nonNormVars

\* the calculation effect totals the six cells of the row
CalculateDaily ==
  /\ normPhase # "idle"
  /\ dailyMinutes = Null
  /\ Len(rawTimestamps) <= 6
  /\ dailyMinutes' = calculateDailyMinutes(
                       Cell(rawTimestamps, 0), Cell(rawTimestamps, 1),
                       Cell(rawTimestamps, 2), Cell(rawTimestamps, 3),
                       Cell(rawTimestamps, 4), Cell(rawTimestamps, 5))
  /\ UNCHANGED <<rawTimestamps, columns, renormalized, normPhase>>
  /\ UNCHANGED nonNormVars

NormNext ==
  \/ NormalizeRow
  \/ ProcessRawTimestamps
  \/ Renormalize
  \/ CalculateDaily

(***************************************************************************)
(* The labor warnings of one row of the table.                             *)
(***************************************************************************)
\* the warning texts, without their diacritics
OddPunchesWarning == "Batidas Impares (falta entrada ou saida)"

Over12HoursWarning == "Jornada excede 12 horas"

LongIntervalWarning == "Intervalo muito longo (>2h30)"

NoLunchWarning == "Sem intervalo de almoco adequado"

\* the 0-based indices i the interval loop visits: 1, 3, .. below length - 1
IntervalIndices(processed) ==
  {i \in 1..(Len(processed) - 2) : i % 2 = 1}

\* diff = processed[i+1] - processed[i]
IntervalAt(processed, i) == processed[i + 2] - processed[i + 1]

\* maxInterval starts at 0 and keeps the largest diff
MaxInterval(processed) ==
  LET diffs == {IntervalAt(processed, i) : i \in IntervalIndices(processed)}
                 \cup {0}
  IN CHOOSE d \in diffs : \A e \in diffs : e <= d

\* hasValidLunch is set on a diff of 60 or more and never read
LunchWarnings(processed, totalMinutesWorked) ==
  IF Len(processed) >= 4
  THEN (IF MaxInterval(processed) > 150 THEN {LongIntervalWarning} ELSE {})
       \cup (IF totalMinutesWorked > 360 /\ MaxInterval(processed) < 30
             THEN {NoLunchWarning} ELSE {})
  ELSE {}

getLaborWarnings(entry1, exit1, entry2, exit2, entry3, exit3, totalWorked) ==
  LET rawMins == ParseAll(<<entry1, exit1, entry2, exit2, entry3, exit3>>)
  IN (IF Len(rawMins) > 0 /\ Len(rawMins) % 2 # 0
      THEN {OddPunchesWarning} ELSE {})
     \cup (IF totalWorked > 12 * 60 THEN {Over12HoursWarning} ELSE {})
     \cup LunchWarnings(
            processTimeEntries(entry1, exit1, entry2, exit2, entry3, exit3),
            totalWorked)

(***************************************************************************)
(* The time conversions applied to one text or one minute value.           *)
(***************************************************************************)
\* length of the free texts handed to timeToMinutes
MaxTextLen == 4

\* minute values tried below 0 and beyond 23:59
MinuteMargin == 60

\* digits, separators and the characters timeToMinutes treats specially
TextAlphabet == {"0", "2", "4", "5", ":", "h", "?", "-"}

RECURSIVE TextsOfLen(_)
TextsOfLen(n) ==
  IF n = 0 THEN {<<>>}
  ELSE {Append(t, c) : t \in TextsOfLen(n - 1), c \in TextAlphabet}

FreeTexts == UNION {TextsOfLen(n) : n \in 0..MaxTextLen}

\* the zero-padded text of hour h and minute m
ClockText(h, m) ==
  PadStart2(NatToStr(h)) \o <<":">> \o PadStart2(NatToStr(m))

\* every "HH:MM" of the hours and minutes timeToMinutes accepts
ClockTexts == {ClockText(h, m) : h \in 0..24, m \in 0..59}

\* texts with the uncertainty markers of the OCR prompt
MarkedTexts == { <<"[", "?", "]">>, <<"1", "2", ":", "3", "?">>,
                 <<"[", "0", "8", ":", "0", "0", "]">>,
                 <<"0", "8", ":", "0", "0", "]">> }

TextInputs == FreeTexts \cup ClockTexts \cup MarkedTexts

MinuteInputs == (0 - MinuteMargin)..(24 * 60 - 1 + MinuteMargin)

ConvIdle ==
  /\ timeText = <<>>
  /\ minuteValue = Null
  /\ textBack = <<>>
  /\ minuteBack = Null

ConvInit ==
  /\ textBack = <<>>
  /\ minuteBack = Null
  /\ \/ /\ utilPhase = "text"
        /\ timeText \in TextInputs
        /\ minuteValue = Null
     \/ /\ utilPhase = "minutes"
        /\ timeText = <<>>
        /\ minuteValue \in MinuteInputs

\* a cell of the card is parsed
ParseText ==
  /\ utilPhase = "text"
  /\ minuteValue' = timeToMinutes(timeText)
  /\ utilPhase' = "parsed"
  /\ UNCHANGED <<timeText, textBack, minuteBack>>
  /\ UNCHANGED nonConvVars

\* the parsed minutes are written back into the column
FormatParsed ==
  /\ utilPhase = "parsed"
  /\ minuteValue # Null
  /\ textBack' = minutesToTime(minuteValue)
  /\ utilPhase' = "parsedFormatted"
  /\ UNCHANGED <<timeText, minuteValue, minuteBack>>
  /\ UNCHANGED nonConvVars

\* the calculation effect formats the worked minutes as totalWorked
FormatMinutes ==
  /\ utilPhase = "minutes"
  /\ textBack' = minutesToTime(minuteValue)
  /\ utilPhase' = "formatted"
  /\ UNCHANGED <<timeText, minuteValue, minuteBack>>
  /\ UNCHANGED nonConvVars

\* the table parses totalWorked again
ParseFormatted ==
  /\ utilPhase = "formatted"
  /\ minuteBack' = timeToMinutes(textBack)
  /\ utilPhase' = "formattedParsed"
  /\ UNCHANGED <<timeText, minuteValue, textBack>>
  /\ UNCHANGED nonConvVars

\* custom holidays per look-up
MaxCustomHolidays == 2

\* custom holidays on the day of Tiradentes and on the day after, with and
\* without a year
CustomHolidayInputs ==
  { [id |-> 1, day |-> 21, month |-> 4, year |-> Null, name |-> "Ponte"],
    [id |-> 2, day |-> 21, month |-> 4, year |-> 2024,
     name |-> "Festa de 2024"],
    [id |-> 3, day |-> 21, month |-> 4, year |-> 2025,
     name |-> "Festa de 2025"],
    [id |-> 4, day |-> 22, month |-> 4, year |-> Null,
     name |-> "Feriado Municipal"] }

RECURSIVE CustomListsOfLen(_)
CustomListsOfLen(n) ==
  IF n = 0 THEN {<<>>}
  ELSE {Append(l, h) : l \in CustomListsOfLen(n - 1),
                       h \in CustomHolidayInputs}

CustomLists == UNION {CustomListsOfLen(n) : n \in 0..MaxCustomHolidays}

\* Tiradentes, the day after, Easter Sunday of 2025 and of 2024, a plain day
DateInputs == { <<21, 4>>, <<22, 4>>, <<20, 4>>, <<31, 3>>, <<23, 4>> }

YearInputs == {2024, 2025}

HolidayQueries ==
  { [day |-> d[1], month |-> d[2], year |-> y, customHolidays |-> l] :
      d \in DateInputs, y \in YearInputs, l \in CustomLists }

NoQuery == [day |-> 0, month |-> 0, year |-> 0, customHolidays |-> <<>>]

HolidayIdle ==
  /\ holidayQuery = NoQuery
  /\ holidayFound = <<>>

HolidayInit ==
  /\ holidayQuery \in HolidayQueries
  /\ holidayFound = <<>>

\* the punches a rendered row is filled from
WarnPunches ==
  <<ClockText(8, 0), ClockText(11, 0), ClockText(12, 0), ClockText(12, 25),
    ClockText(12, 45), ClockText(13, 0), ClockText(14, 30), ClockText(18, 0),
    ClockText(21, 0)>>

\* the punches of WarnPunches at the positions picked, in list order
RECURSIVE PickWarn(_, _)
PickWarn(picked, k) ==
  IF k > Len(WarnPunches) THEN <<>>
  ELSE (IF k \in picked THEN <<WarnPunches[k]>> ELSE <<>>)
       \o PickWarn(picked, k + 1)

\* the six cells of a row: its punches, then empty cells
SixCells(punches) == [k \in 1..6 |-> Cell(punches, k - 1)]

WarnRows ==
  {SixCells(PickWarn(picked, 1)) :
     picked \in {p \in SUBSET (1..Len(WarnPunches)) : Cardinality(p) <= 6}}

WarnIdle ==
  /\ warnedCells = SixCells(<<>>)
  /\ warnedTotal = Null
  /\ laborWarnings = {}

WarnInit ==
  /\ warnedCells \in WarnRows
  /\ warnedTotal = Null
  /\ laborWarnings = {}

\* const dailyMins = timeToMinutes(row.totalWorked) || 0, of the total the
\* calculation effect stored as minutesToTime(dailyMins)
RenderedDailyMins(cells) ==
  LET stored == minutesToTime(calculateDailyMinutes(
                  cells[1], cells[2], cells[3], cells[4], cells[5], cells[6]))
      parsed == timeToMinutes(stored)
  IN IF parsed = Null THEN 0 ELSE parsed

\* the years whose days the first pass numbers by week
WeekYears == {2024, 2025}

\* two rows of one reference month
DayPairs ==
  {q \in [year : WeekYears, month : 1..12, day : 1..31, other : 1..31] :
     q.day <= DaysInMonth(q.year, q.month)
       /\ q.other <= DaysInMonth(q.year, q.month)}

\* the years getStandardHolidays is asked for
FirstYear == 1900

LastYear == 2099

HolidayYears == [year : FirstYear..LastYear]

(***************************************************************************)
(* deduplicateAndMergeRows of the six-column service: one row per day      *)
(* number.                                                                 *)
(***************************************************************************)
\* the longest list of rows read from one card
MaxScanned == 3

StrUnknown == <<"[", "?", "]">>

\* value.replace(/\D/g, '')
RECURSIVE KeepDigits(_)
KeepDigits(s) ==
  IF s = <<>> THEN <<>>
  ELSE (IF IsDigit(Head(s)) THEN <<Head(s)>> ELSE <<>>)
       \o KeepDigits(Tail(s))

\* parseInt(String(row.day).replace(/\D/g, ''), 10); Null stands for NaN
DayInt(day) == ParseInt(KeepDigits(day))

\* a mutation of isUseful: the unreadable mark counts as a value
isUsefulWithMark(v) == v # <<>> /\ Trim(v) # <<>>

\* v && typeof v === 'string' && v.trim() !== '' && v !== '[?]'
isUseful(v) == v # <<>> /\ Trim(v) # <<>> /\ v # StrUnknown

\* if (!isUseful(existing[key]) && isUseful(row[key])) existing[key] = ...
PreferUseful(existing, new) ==
  IF ~isUseful(existing) /\ isUseful(new) THEN new ELSE existing

MergeInto(existing, row) ==
  [existing EXCEPT
     !.dayLabel = PreferUseful(@, row.dayLabel),
     !.entry1 = PreferUseful(@, row.entry1),
     !.exit1 = PreferUseful(@, row.exit1),
     !.entry2 = PreferUseful(@, row.entry2),
     !.exit2 = PreferUseful(@, row.exit2),
     !.entry3 = PreferUseful(@, row.entry3),
     !.exit3 = PreferUseful(@, row.exit3),
     !.isWeekend = @ \/ row.isWeekend]

\* mergedMap.has(dayInt); the map is the list of its values in insertion
\* order, each keyed by its day
MapHas(map, dayInt) == \E i \in 1..Len(map) : ParseInt(map[i].day) = dayInt

\* rows.forEach(row => ...)
RECURSIVE MergeEach(_, _)
MergeEach(rows, map) ==
  IF rows = <<>> THEN map
  ELSE LET row == Head(rows)
           dayInt == DayInt(row.day)
       IN  IF dayInt = Null THEN MergeEach(Tail(rows), map)
           ELSE IF ~MapHas(map, dayInt)
           THEN MergeEach(Tail(rows),
                  Append(map, [row EXCEPT !.day = NatToStr(dayInt)]))
           ELSE MergeEach(Tail(rows),
                  [i \in 1..Len(map) |->
                     IF ParseInt(map[i].day) = dayInt
                     THEN MergeInto(map[i], row) ELSE map[i]])

deduplicateAndMergeRows(rows) == SortByDay(MergeEach(rows, <<>>))

\* the rows read: a day, a label with the weekend flag, a first and a last
\* time column
ScannedDays == { <<"0", "1">>, <<"2">>, <<"?">> }

ScannedLabels ==
  { [dayLabel |-> <<>>, isWeekend |-> FALSE],
    [dayLabel |-> StrUnknown, isWeekend |-> TRUE],
    [dayLabel |-> <<"D", "O", "M">>, isWeekend |-> FALSE] }

ScannedTimes ==
  { [entry1 |-> <<>>, exit3 |-> <<>>],
    [entry1 |-> <<" ">>, exit3 |-> Str(18, 0)],
    [entry1 |-> StrUnknown, exit3 |-> StrUnknown],
    [entry1 |-> Str(8, 0), exit3 |-> <<>>],
    [entry1 |-> Str(9, 0), exit3 |-> Str(17, 0)] }

ScannedRow(day, label, times) ==
  [day |-> day, dayLabel |-> label.dayLabel, entry1 |-> times.entry1,
   exit1 |-> <<>>, entry2 |-> <<>>, exit2 |-> <<>>, entry3 |-> <<>>,
   exit3 |-> times.exit3, isWeekend |-> label.isWeekend]

ScannedRowSet ==
  { ScannedRow(day, label, times) :
      day \in ScannedDays, label \in ScannedLabels, times \in ScannedTimes }

ScannedLists ==
  UNION { [1..n -> ScannedRowSet] : n \in 1..MaxScanned }

MergeIdle ==
  /\ scannedRows = <<>>
  /\ mergedRows = <<>>

MergeInit ==
  /\ scannedRows \in ScannedLists
  /\ mergedRows = <<>>

CalendarIdle ==
  /\ calendarQuery = [year |-> 0]
  /\ calendarAnswer = <<>>

DaysInit ==
  /\ calendarQuery \in DayPairs
  /\ calendarAnswer = <<>>

YearInit ==
  /\ calendarQuery \in HolidayYears
  /\ calendarAnswer = <<>>

UtilIdle ==
  /\ ConvIdle /\ HolidayIdle /\ WarnIdle /\ CalendarIdle /\ MergeIdle
  /\ utilPhase = "idle"

UtilInit ==
  \/ ConvInit /\ HolidayIdle /\ WarnIdle /\ CalendarIdle /\ MergeIdle
  \/ ConvIdle /\ HolidayInit /\ WarnIdle /\ CalendarIdle /\ MergeIdle
       /\ utilPhase = "holiday"
  \/ ConvIdle /\ HolidayIdle /\ WarnInit /\ CalendarIdle /\ MergeIdle
       /\ utilPhase = "row"
  \/ ConvIdle /\ HolidayIdle /\ WarnIdle /\ DaysInit /\ MergeIdle
       /\ utilPhase = "days"
  \/ ConvIdle /\ HolidayIdle /\ WarnIdle /\ YearInit /\ MergeIdle
       /\ utilPhase = "year"
  \/ ConvIdle /\ HolidayIdle /\ WarnIdle /\ CalendarIdle /\ MergeInit
       /\ utilPhase = "scanned"

\* parseTimecardImage merges the rows the service read
MergeScannedRows ==
  /\ utilPhase = "scanned"
  /\ mergedRows' = deduplicateAndMergeRows(scannedRows)
  /\ utilPhase' = "merged"
  /\ UNCHANGED scannedRows
  /\ UNCHANGED nonMergeVars

\* the first pass numbers the weeks of two rows
NumberWeeks ==
  /\ utilPhase = "days"
  /\ calendarAnswer' =
       <<WeekNum(calendarQuery.year, calendarQuery.month, calendarQuery.day),
         WeekNum(calendarQuery.year, calendarQuery.month,
                 calendarQuery.other)>>
  /\ utilPhase' = "weeks"
  /\ UNCHANGED calendarQuery
  /\ UNCHANGED nonCalendarVars

\* getHolidayName lists the system holidays of the year
ListStandardHolidays ==
  /\ utilPhase = "year"
  /\ calendarAnswer' = getStandardHolidays(calendarQuery.year)
  /\ utilPhase' = "holidays"
  /\ UNCHANGED calendarQuery
  /\ UNCHANGED nonCalendarVars

\* the table computes the warnings of a row
RenderWarnings ==
  /\ utilPhase = "row"
  /\ warnedTotal' = RenderedDailyMins(warnedCells)
  /\ laborWarnings' = getLaborWarnings(
                        warnedCells[1], warnedCells[2], warnedCells[3],
                        warnedCells[4], warnedCells[5], warnedCells[6],
                        RenderedDailyMins(warnedCells))
  /\ utilPhase' = "warned"
  /\ UNCHANGED warnedCells
  /\ UNCHANGED nonWarnVars

\* the first pass and the table look up the holiday of a day
LookUpHoliday ==
  /\ utilPhase = "holiday"
  /\ holidayFound' = getHolidayName(holidayQuery.day, holidayQuery.month,
                                    holidayQuery.year,
                                    holidayQuery.customHolidays)
  /\ utilPhase' = "holidayNamed"
  /\ UNCHANGED holidayQuery
  /\ UNCHANGED nonHolidayVars

UtilNext ==
  \/ ParseText
  \/ FormatParsed
  \/ FormatMinutes
  \/ ParseFormatted
  \/ LookUpHoliday
  \/ RenderWarnings
  \/ NumberWeeks
  \/ ListStandardHolidays
  \/ MergeScannedRows

(***************************************************************************)
(* One invocation of parseTimecardImage: the retry loop around the OCR     *)
(* service.                                                                *)
(***************************************************************************)
maxRetries == 3

\* an error code that is a text, such as 'ETIMEDOUT': no number compares
\* with it
TextCode == -3000000

\* the errors generateContent rejects with: their status and code fields
ErrorInputs ==
  [status : {Null, 0, 400, 499, 500, 503}, code : {Null, 404, 500, TextCode}]

\* the SyntaxError of JSON.parse: it carries neither field
ParseError == [status |-> Null, code |-> Null]

\* response.text: a JSON array, nothing, or text that is no JSON
ResponseInputs == {"rows", "empty", "malformed"}

IsTruthy(v) == v # Null /\ v # 0

\* const status = error.status || error.code
ErrorStatus(error) ==
  IF IsTruthy(error.status) THEN error.status ELSE error.code

\* a mutation of ShouldRetry: every failure that carries a number retries
ShouldRetryOnAnyNumber(status) == IsTruthy(status) /\ status # TextCode

\* if (status && status >= 500)
ShouldRetry(status) == IsTruthy(status) /\ status # TextCode /\ status >= 500

RetryIdle ==
  /\ attempt = 1
  /\ serviceCalls = 0
  /\ failures = <<>>
  /\ lastError = <<>>
  /\ outcome = <<>>
  /\ retryPhase = "idle"

\* parseTimecardImage is entered: attempt = 1, lastError unset
RetryInit ==
  /\ attempt = 1
  /\ serviceCalls = 0
  /\ failures = <<>>
  /\ lastError = <<>>
  /\ outcome = <<>>
  /\ retryPhase = "calling"

\* await ai.models.generateContent(...) is issued
generateContent ==
  /\ retryPhase = "calling"
  /\ attempt <= maxRetries
  /\ serviceCalls' = serviceCalls + 1
  /\ retryPhase' = "awaiting"
  /\ UNCHANGED <<attempt, failures, lastError, outcome>>
  /\ UNCHANGED nonRetryVars

\* the catch block, and the throw behind the loop when it runs out
Catch(error) ==
  /\ failures' = Append(failures, error)
  /\ lastError' = <<error>>
  /\ IF ShouldRetry(ErrorStatus(error))
     THEN IF attempt < maxRetries
          THEN /\ retryPhase' = "delay"
               /\ UNCHANGED <<attempt, outcome>>
          ELSE /\ attempt' = attempt + 1
               /\ outcome' = <<"thrown", error>>
               /\ retryPhase' = "done"
     ELSE /\ outcome' = <<"thrown", error>>
          /\ retryPhase' = "done"
          /\ UNCHANGED attempt

\* the service answers: the try block behind the await
responseReceived(text) ==
  /\ retryPhase = "awaiting"
  /\ IF text = "malformed"
     THEN Catch(ParseError)
     ELSE /\ outcome' = <<"returned", text>>
          /\ retryPhase' = "done"
          /\ UNCHANGED <<attempt, failures, lastError>>
  /\ UNCHANGED serviceCalls
  /\ UNCHANGED nonRetryVars

\* the service call rejects
callRejected(error) ==
  /\ retryPhase = "awaiting"
  /\ Catch(error)
  /\ UNCHANGED serviceCalls
  /\ UNCHANGED nonRetryVars

\* setTimeout(resolve, 1000 * attempt) fires; continue
delayElapsed ==
  /\ retryPhase = "delay"
  /\ attempt' = attempt + 1
  /\ retryPhase' = "calling"
  /\ UNCHANGED <<serviceCalls, failures, lastError, outcome>>
  /\ UNCHANGED nonRetryVars

RetryNext ==
  \/ generateContent
  \/ \E text \in ResponseInputs : responseReceived(text)
  \/ \E error \in ErrorInputs : callRejected(error)
  \/ delayElapsed

(***************************************************************************)
(* Specifications.                                                         *)
(***************************************************************************)
Init == EditorInit /\ NormIdle /\ UtilIdle /\ RetryIdle /\ RequestIdle

Next == EditorNext

\* the editor session
Spec == Init /\ [][Next]_vars

NormSpecInit ==
  EditorIdle /\ NormInit /\ UtilIdle /\ RetryIdle /\ RequestIdle

\* the normalization functions on one list of punches
NormSpec == NormSpecInit /\ [][NormNext]_vars

UtilSpecInit ==
  EditorIdle /\ NormIdle /\ UtilInit /\ RetryIdle /\ RequestIdle

\* the time conversions on one text or one minute value
UtilSpec == UtilSpecInit /\ [][UtilNext]_vars

\* the editor session with further cards added to the employee
UploadNext ==
  \/ EditorNext
  \/ processFilesAppend
  \/ \E rawRows \in AppendedDataSets : appendProcessedRows(rawRows)
  \/ appendFailed

\* the upload screen hands over rows whose day parseTimecardImage has
\* normalized to a number
DaysNormalized ==
  \A i \in 1..Len(initialData) : ParseInt(initialData[i].day) # Null

UploadSpecInit == Init /\ DaysNormalized

UploadSpec == UploadSpecInit /\ [][UploadNext]_vars

\* the editor session, the calculation effect running after every render
\* whose dependency list changed
\* a run of the effect: Recompute, the one step that changes effectDeps
EffectRan == effectDeps' # effectDeps

\* weak fairness of Recompute written out: Recompute is enabled exactly
\* while a run is pending, that is while ~Quiescent
EffectFairness == []<>Quiescent \/ []<><<EffectRan>>_vars

EffectSpec == Init /\ [][Next]_vars /\ EffectFairness

(***************************************************************************)
(* Several employees: processFiles with its OCR calls in flight, the       *)
(* sidebar and the deletion of an employee.                                *)
(***************************************************************************)
\* the calls of processFiles in one session
MaxRequests == 2

\* `emp-${Date.now()}` of the successive new employees
NewEmployeeIds == <<"emp-2", "emp-3", "emp-4">>

\* base64Results of the successive calls
UploadedImages == <<"card-1", "card-2", "card-3">>

IsPending(k) == k <= Len(requests) /\ requests[k].state = "pending"

\* const newId = `emp-${Date.now()}`
NewId ==
  NewEmployeeIds[1 + Cardinality({k \in 1..Len(requests) :
                                    ~requests[k].isAppend})]

\* a mutation of TargetEmployeeId: the result goes to the employee on screen
TargetAlwaysActive(isAppend, newId) == activeEmployeeId

\* targetEmployeeId = activeEmployeeId, or targetEmployeeId = newId
TargetEmployeeId(isAppend, newId) ==
  IF isAppend THEN activeEmployeeId ELSE newId

\* newEmpPlaceholder
Placeholder(newId, base64Results) ==
  [id |-> newId, imageUrls |-> base64Results, rows |-> <<>>,
   schedule |-> DefaultSchedule, status |-> "processing",
   summary |-> EmptySummary]

\* processFiles up to the call of parseTimecardImage
processFiles(isAppend) ==
  /\ Quiescent
  /\ Len(employees) > 0
  /\ Len(requests) < MaxRequests
  /\ isAppend =>
       /\ FindEmployee(employees, activeEmployeeId) # <<>>
       /\ ~IsProcessing(FindEmployee(employees, activeEmployeeId)[1])
  /\ LET base64Results == <<UploadedImages[Len(requests) + 1]>>
     IN  /\ employees' =
              IF isAppend
              THEN updateActiveEmployee(
                     employees,
                     [i \in 1..Len(employees) |->
                        [employees[i] EXCEPT !.status = "processing"]])
              ELSE Append(employees, Placeholder(NewId, base64Results))
         /\ requests' =
              Append(requests,
                     [isAppend |-> isAppend,
                      activeEmployeeId |-> activeEmployeeId,
                      newId |-> IF isAppend THEN "" ELSE NewId,
                      targetEmployeeId |-> TargetEmployeeId(isAppend, NewId),
                      base64Results |-> base64Results,
                      state |-> "pending", rawRows |-> <<>>])
  /\ UNCHANGED <<initialData, activeEmployeeId, referenceMonth,
                 customHolidays, effectDeps, userEdits>>
  /\ UNCHANGED nonSessionVars

\* what parseTimecardImage does: it throws, or it returns a list of rows
OcrResponses ==
  {[thrown |-> TRUE, rawRows |-> <<>>]}
  \cup {[thrown |-> FALSE, rawRows |-> rawRows] :
          rawRows \in AppendedDataSets \cup {<<>>}}

\* a mutation of OcrFailed: an empty list is taken as a result
OcrFailedOnThrowOnly(response) == response.thrown

\* the catch block is entered: the call threw, or
\* if (!rawRows || rawRows.length === 0) throw new Error(...)
OcrFailed(response) == response.thrown \/ Len(response.rawRows) = 0

\* generateId(): the rows handed out so far have taken the first ids
IssuedRowIds ==
  Len(initialData)
  + SumSeq([k \in 1..Len(requests) |-> Len(requests[k].rawRows)])

\* setEmployees(prev => prev.map(emp => ...)) of the try block
WriteResult(emp, request, processedRows) ==
  IF emp.id # request.targetEmployeeId THEN emp
  ELSE [emp EXCEPT
          !.rows = IF request.isAppend
                   THEN SortByDay(emp.rows \o processedRows)
                   ELSE processedRows,
          !.imageUrls = IF request.isAppend
                        THEN emp.imageUrls \o request.base64Results
                        ELSE emp.imageUrls,
          !.status = "ready"]

\* setEmployees(prev => prev.map(emp => ...)) of the catch block
WriteError(emp, request) ==
  IF emp.id # request.targetEmployeeId THEN emp
  ELSE [emp EXCEPT !.status = "error"]

\* processFiles from the return of parseTimecardImage on
ocrCompleted(k, response) ==
  /\ IsPending(k)
  /\ employees' =
       IF OcrFailed(response)
       THEN [i \in 1..Len(employees) |->
               WriteError(employees[i], requests[k])]
       ELSE [i \in 1..Len(employees) |->
               WriteResult(employees[i], requests[k],
                           ProcessedRows(response.rawRows, IssuedRowIds))]
  /\ requests' =
       [requests EXCEPT
          ![k].state = IF OcrFailed(response) THEN "failed" ELSE "done",
          ![k].rawRows = IF OcrFailed(response) THEN <<>>
                         ELSE response.rawRows]
  /\ UNCHANGED <<initialData, activeEmployeeId, referenceMonth,
                 customHolidays, effectDeps, userEdits>>
  /\ UNCHANGED nonSessionVars

EmployeeIds == {"emp-1"} \cup {NewEmployeeIds[k] : k \in 1..Len(NewEmployeeIds)}

\* onClick={() => setActiveEmployeeId(emp.id)}
setActiveEmployeeId(id) ==
  /\ Quiescent
  /\ FindEmployee(employees, id) # <<>>
  /\ id # activeEmployeeId
  /\ activeEmployeeId' = id
  /\ UNCHANGED <<initialData, employees, referenceMonth, customHolidays,
                 effectDeps, userEdits>>
  /\ UNCHANGED requests
  /\ UNCHANGED nonSessionVars

handleDeleteEmployee(id) ==
  /\ Quiescent
  /\ FindEmployee(employees, id) # <<>>
  /\ Len(employees) > 1
  /\ LET newEmps == SelectSeq(employees, LAMBDA emp : emp.id # id)
     IN  /\ employees' = newEmps
         /\ activeEmployeeId' =
              IF activeEmployeeId = id THEN newEmps[1].id
              ELSE activeEmployeeId
  /\ UNCHANGED <<initialData, referenceMonth, customHolidays, effectDeps,
                 userEdits>>
  /\ UNCHANGED requests
  /\ UNCHANGED nonSessionVars

SessionNext ==
  \/ InitializeFirstEmployee
  \/ Recompute
  \/ \E isAppend \in BOOLEAN : processFiles(isAppend)
  \/ \E k \in 1..MaxRequests, response \in OcrResponses :
       ocrCompleted(k, response)
  \/ \E id \in EmployeeIds : setActiveEmployeeId(id)
  \/ \E id \in EmployeeIds : handleDeleteEmployee(id)

SessionSpecInit == Init /\ DaysNormalized

\* the session with several employees
SessionSpec == SessionSpecInit /\ [][SessionNext]_vars

\* the call of request k returns or throws
Completion(k) == \E response \in OcrResponses : ocrCompleted(k, response)

\* every call of the OCR service completes
OcrCompletes == \A k \in 1..MaxRequests : WF_vars(Completion(k))

\* the session in which no call of the service stays open for ever
FairSessionSpec == SessionSpec /\ OcrCompletes

RetrySpecInit ==
  EditorIdle /\ NormIdle /\ UtilIdle /\ RetryInit /\ RequestIdle

\* the awaited service call settles and the timer of the delay fires
RetrySpec == RetrySpecInit /\ [][RetryNext]_vars /\ WF_vars(RetryNext)

(***************************************************************************)
(* Vocabulary of the properties: what a row is, read from the card and the *)
(* calendar, against which the results of the calculation are compared.    *)
(***************************************************************************)
IsReady(emp) == emp.status # "processing"

HasDayNumber(row) == ParseInt(row.day) # Null

WeekdayOf(row, refMonth) ==
  GetDay(RefYear(refMonth), RefMonth(refMonth), ParseInt(row.day))

WeekOf(row, refMonth) ==
  WeekNum(RefYear(refMonth), RefMonth(refMonth), ParseInt(row.day))

HolidayOn(row, refMonth, holidays) ==
  IsHolidayDay(ParseInt(row.day), RefMonth(refMonth), RefYear(refMonth),
               holidays)

TargetOf(emp, row, refMonth) ==
  TargetMinutes(emp.schedule, WeekdayOf(row, refMonth))

WorkedOf(row) == RowDailyMinutes(row)

\* target > 0, worked = 0, not a holiday, not aboned, no FOLGA label
CandidateFault(emp, row, refMonth, holidays) ==
  /\ HasDayNumber(row)
  /\ TargetOf(emp, row, refMonth) > 0
  /\ WorkedOf(row) = 0
  /\ ~HolidayOn(row, refMonth, holidays)
  /\ ~row.isAboned
  /\ ~IsExplicitFolga(row)

\* a worked Sunday row
WorkedSunday(row, refMonth) ==
  HasDayNumber(row) /\ WeekdayOf(row, refMonth) = 0 /\ WorkedOf(row) > 0

\* a row of the week of the Sunday row, on another weekday
WeekdayRowOfWeek(row, sunday, refMonth) ==
  /\ HasDayNumber(row)
  /\ WeekOf(row, refMonth) = WeekOf(sunday, refMonth)
  /\ WeekdayOf(row, refMonth) # 0

\* the rows of the employee that are counted as faults in the month total
CountedFaults(emp) ==
  {q \in 1..Len(emp.rows) : emp.rows[q]._tempIsFalta /\ ~emp.rows[q].isAboned}

(***************************************************************************)
(* C1: in a week whose Sunday was worked and that holds exactly one        *)
(* weekday candidate fault, not manually disabled, the recomputation       *)
(* leaves that row as compensatory rest, not a fault, and outside          *)
(* totalFaltasDays.                                                        *)
(***************************************************************************)
C1_Case(emp, s, r, refMonth, holidays) ==
  /\ WorkedSunday(emp.rows[s], refMonth)
  /\ WeekdayRowOfWeek(emp.rows[r], emp.rows[s], refMonth)
  /\ CandidateFault(emp, emp.rows[r], refMonth, holidays)
  /\ ~emp.rows[r].manuallyDisabledDsr
  /\ \A q \in 1..Len(emp.rows) :
       (q # r /\ WeekdayRowOfWeek(emp.rows[q], emp.rows[s], refMonth))
         => ~CandidateFault(emp, emp.rows[q], refMonth, holidays)

C1_After(emps, refMonth, holidays) ==
  \A e \in 1..Len(emps) :
    IsReady(emps[e]) =>
      \A s \in 1..Len(emps[e].rows), r \in 1..Len(emps[e].rows) :
        C1_Case(emps[e], s, r, refMonth, holidays) =>
          /\ emps[e].rows[r].isCompensatoryRest
          /\ ~emps[e].rows[r]._tempIsFalta
          /\ r \notin CountedFaults(emps[e])
          /\ emps[e].summary.totalFaltasDays
               = Cardinality(CountedFaults(emps[e]) \ {r})

\* C1: every recomputation turns the single weekday fault of a week with a
\* worked Sunday into compensatory rest and leaves it out of the faults
C1_FaultBecomesCompensatoryRest ==
  [][Recompute => C1_After(employees', referenceMonth', customHolidays')]_vars

(***************************************************************************)
(* C2: in a week whose Sunday was worked and that holds no weekday         *)
(* candidate fault, the recomputation flags the Sunday row isSundayNoRest  *)
(* and every row keeps its first-pass fault status.                        *)
(***************************************************************************)
C2_Case(emp, s, refMonth, holidays) ==
  /\ WorkedSunday(emp.rows[s], refMonth)
  /\ \A q \in 1..Len(emp.rows) :
       WeekdayRowOfWeek(emp.rows[q], emp.rows[s], refMonth)
         => ~CandidateFault(emp, emp.rows[q], refMonth, holidays)

C2_After(emps, refMonth, holidays) ==
  \A e \in 1..Len(emps) :
    IsReady(emps[e]) =>
      \A s \in 1..Len(emps[e].rows) :
        C2_Case(emps[e], s, refMonth, holidays) =>
          /\ emps[e].rows[s].isSundayNoRest
          /\ \A q \in 1..Len(emps[e].rows) :
               (HasDayNumber(emps[e].rows[q]) /\ ~emps[e].rows[q].forceDsr)
                 => (emps[e].rows[q]._tempIsFalta
                       <=> CandidateFault(emps[e], emps[e].rows[q], refMonth,
                                          holidays))

\* C2: every recomputation flags a worked Sunday whose week has no weekday
\* fault to convert, and changes no fault status
C2_SundayFlaggedWithoutRest ==
  [][Recompute => C2_After(employees', referenceMonth', customHolidays')]_vars

(***************************************************************************)
(* C3: totalDsrDescontado is the sum over the weeks of 0 without an        *)
(* unresolved fault, else 1, plus 1 when the week holds a holiday on a     *)
(* weekday other than Sunday.                                              *)
(***************************************************************************)
WeeksOf(emp, refMonth) ==
  {WeekOf(emp.rows[q], refMonth) :
     q \in {i \in 1..Len(emp.rows) : HasDayNumber(emp.rows[i])}}

RowsOfWeek(emp, w, refMonth) ==
  {q \in 1..Len(emp.rows) :
     HasDayNumber(emp.rows[q]) /\ WeekOf(emp.rows[q], refMonth) = w}

WeekHasFault(emp, w, refMonth) ==
  \E q \in RowsOfWeek(emp, w, refMonth) : emp.rows[q]._tempIsFalta

WeekHasWeekdayHoliday(emp, w, refMonth, holidays) ==
  \E q \in RowsOfWeek(emp, w, refMonth) :
    /\ HolidayOn(emp.rows[q], refMonth, holidays)
    /\ WeekdayOf(emp.rows[q], refMonth) # 0

C3_After(emps, refMonth, holidays) ==
  \A e \in 1..Len(emps) :
    IsReady(emps[e]) =>
      emps[e].summary.totalDsrDescontado
        = Cardinality({w \in WeeksOf(emps[e], refMonth) :
                         WeekHasFault(emps[e], w, refMonth)})
          + Cardinality({w \in WeeksOf(emps[e], refMonth) :
                           /\ WeekHasFault(emps[e], w, refMonth)
                           /\ WeekHasWeekdayHoliday(emps[e], w, refMonth,
                                                    holidays)})

\* C3: after every recomputation a week with a fault costs one rest day,
\* and a second one exactly when it holds a holiday that is not on Sunday
C3_WeeklyRestLoss ==
  [][Recompute => C3_After(employees', referenceMonth', customHolidays')]_vars

(***************************************************************************)
(* C4: once the effects have run after a user mutation, the rows and the   *)
(* summary of every employee are the engine's result for the current rows, *)
(* schedule, holidays and month.                                           *)
(***************************************************************************)
\* C4: in every quiescent state the employees equal their recomputation
C4_QuiescentStateIsRecomputed ==
  (Quiescent /\ Len(employees) > 0)
    => employees = RecalculateAll(employees, referenceMonth, customHolidays)

(***************************************************************************)
(* C5: special overtime of a day is the worked minutes when the day is     *)
(* premium and 0 otherwise; premium is false with sundayMode off, else     *)
(* true iff holiday, or Sunday with target 0, or isSundayNoRest, or        *)
(* sundayMode extra.                                                       *)
(***************************************************************************)
IsComputed(row) == "_calculatedSpecial" \in DOMAIN row

Premium(emp, row, refMonth, holidays) ==
  IF row.sundayMode = "off" THEN FALSE
  ELSE \/ HolidayOn(row, refMonth, holidays)
       \/ (WeekdayOf(row, refMonth) = 0 /\ TargetOf(emp, row, refMonth) = 0)
       \/ row.isSundayNoRest
       \/ row.sundayMode = "extra"

C5_After(emps, refMonth, holidays) ==
  \A e \in 1..Len(emps) :
    IsReady(emps[e]) =>
      \A r \in 1..Len(emps[e].rows) :
        HasDayNumber(emps[e].rows[r]) =>
          emps[e].rows[r]._calculatedSpecial
            = IF Premium(emps[e], emps[e].rows[r], refMonth, holidays)
              THEN WorkedOf(emps[e].rows[r])
              ELSE 0

\* C5: every recomputation gives each day its worked minutes as special
\* overtime when it is premium, and none when it is not
C5_SpecialOvertimeIsWorkedOnPremiumDays ==
  [][Recompute => C5_After(employees', referenceMonth', customHolidays')]_vars

\* a worked holiday whose premium was switched off has no special overtime
C5_Witness ==
  /\ Quiescent
  /\ \E e \in 1..Len(employees) :
       \E r \in 1..Len(employees[e].rows) :
         /\ IsComputed(employees[e].rows[r])
         /\ HasDayNumber(employees[e].rows[r])
         /\ employees[e].rows[r].sundayMode = "off"
         /\ HolidayOn(employees[e].rows[r], referenceMonth, customHolidays)
         /\ WorkedOf(employees[e].rows[r]) > 0
         /\ employees[e].rows[r]._calculatedSpecial = 0

(***************************************************************************)
(* C6: normal overtime of a day is 0 when the day is premium and           *)
(* max(0, worked - target) when it is not, so normal and special overtime  *)
(* are never both positive on the same day.                                *)
(***************************************************************************)
C6_After(emps, refMonth, holidays) ==
  \A e \in 1..Len(emps) :
    IsReady(emps[e]) =>
      \A r \in 1..Len(emps[e].rows) :
        HasDayNumber(emps[e].rows[r]) =>
          /\ emps[e].rows[r]._calculatedNormal
               = IF Premium(emps[e], emps[e].rows[r], refMonth, holidays)
                 THEN 0
                 ELSE Max(0, WorkedOf(emps[e].rows[r])
                               - TargetOf(emps[e], emps[e].rows[r], refMonth))
          /\ ~(emps[e].rows[r]._calculatedNormal > 0
                 /\ emps[e].rows[r]._calculatedSpecial > 0)

\* C6: every recomputation gives a premium day no normal overtime and any
\* other day the minutes worked beyond the target, never both kinds
C6_NormalOvertimeOnlyOffPremium ==
  [][Recompute => C6_After(employees', referenceMonth', customHolidays')]_vars

\* a premium day worked beyond its target: all of it is special overtime
C6_Witness ==
  /\ Quiescent
  /\ \E e \in 1..Len(employees) :
       \E r \in 1..Len(employees[e].rows) :
         /\ IsComputed(employees[e].rows[r])
         /\ HasDayNumber(employees[e].rows[r])
         /\ Premium(employees[e], employees[e].rows[r], referenceMonth,
                    customHolidays)
         /\ TargetOf(employees[e], employees[e].rows[r], referenceMonth) > 0
         /\ WorkedOf(employees[e].rows[r])
              > TargetOf(employees[e], employees[e].rows[r], referenceMonth)
         /\ employees[e].rows[r]._calculatedNormal = 0
         /\ employees[e].rows[r]._calculatedSpecial
              = WorkedOf(employees[e].rows[r])

(***************************************************************************)
(* C7: a non-aboned day with a parseable day number adds                   *)
(* max(0, target - worked) to totalDeficitMinutes when it is no day-off    *)
(* and no compensatory rest, and 0 when it is a holiday, labelled FOLGA or *)
(* a compensatory rest.                                                    *)
(***************************************************************************)
\* the employee without row r
WithoutRow(emp, r) == [emp EXCEPT !.rows = RemoveAt(emp.rows, r - 1, 1)]

\* what row r adds to a total: the total less the total of the card
\* without the row
SummaryWithout(emp, r, refMonth, holidays) ==
  Recalculate(WithoutRow(emp, r), refMonth, holidays).summary

ClaimedDeficit(emp, row, refMonth, holidays) ==
  IF \/ HolidayOn(row, refMonth, holidays)
     \/ IsExplicitFolga(row)
     \/ row.isCompensatoryRest
  THEN 0
  ELSE Max(0, TargetOf(emp, row, refMonth) - WorkedOf(row))

C7_After(emps, refMonth, holidays) ==
  \A e \in 1..Len(emps) :
    IsReady(emps[e]) =>
      \A r \in 1..Len(emps[e].rows) :
        (HasDayNumber(emps[e].rows[r]) /\ ~emps[e].rows[r].isAboned) =>
          emps[e].summary.totalDeficitMinutes
            - SummaryWithout(emps[e], r, refMonth, holidays)
                .totalDeficitMinutes
            = ClaimedDeficit(emps[e], emps[e].rows[r], refMonth, holidays)

\* C7: after every recomputation each non-aboned day adds to the deficit
\* total the minutes missing to its target, unless it is a day-off or a
\* compensatory rest, which add nothing
C7_DeficitOfOrdinaryDays ==
  [][Recompute => C7_After(employees', referenceMonth', customHolidays')]_vars

(***************************************************************************)
(* C8: an aboned row adds nothing to the five totals of the summary, and   *)
(* its own _calculatedNormal and _calculatedSpecial are those it would     *)
(* have without the abono.                                                 *)
(***************************************************************************)
WithAbonoCleared(emp, r) == [emp EXCEPT !.rows[r].isAboned = FALSE]

SameOvertimeTotals(s1, s2) ==
  /\ s1.totalExtrasNormal = s2.totalExtrasNormal
  /\ s1.totalExtrasSpecial = s2.totalExtrasSpecial
  /\ s1.totalDeficitMinutes = s2.totalDeficitMinutes
  /\ s1.totalFaltasDays = s2.totalFaltasDays

SameRowOvertime(row1, row2) ==
  /\ row1._calculatedNormal = row2._calculatedNormal
  /\ row1._calculatedSpecial = row2._calculatedSpecial

DisplayUnaffectedByAbono(emp, r, refMonth, holidays) ==
  SameRowOvertime(emp.rows[r],
                  Recalculate(WithAbonoCleared(emp, r), refMonth,
                              holidays).rows[r])

C8_After(emps, refMonth, holidays) ==
  \A e \in 1..Len(emps) :
    IsReady(emps[e]) =>
      \A r \in 1..Len(emps[e].rows) :
        emps[e].rows[r].isAboned =>
          /\ SameOvertimeTotals(emps[e].summary,
                                SummaryWithout(emps[e], r, refMonth,
                                               holidays))
          /\ emps[e].summary.totalDsrDescontado
               = SummaryWithout(emps[e], r, refMonth, holidays)
                   .totalDsrDescontado
          /\ DisplayUnaffectedByAbono(emps[e], r, refMonth, holidays)

\* C8 as stated: after every recomputation the five totals are those of
\* the card without the aboned row, and the row shows the overtime it
\* would show without the abono
C8_AbonedRowOutsideEveryTotal ==
  [][Recompute => C8_After(employees', referenceMonth', customHolidays')]_vars

C8_AmendedAfter(emps, refMonth, holidays) ==
  \A e \in 1..Len(emps) :
    IsReady(emps[e]) =>
      \A r \in 1..Len(emps[e].rows) :
        emps[e].rows[r].isAboned =>
          /\ SameOvertimeTotals(emps[e].summary,
                                SummaryWithout(emps[e], r, refMonth,
                                               holidays))
          /\ (HasDayNumber(emps[e].rows[r])
                /\ HolidayOn(emps[e].rows[r], refMonth, holidays))
             \/ emps[e].summary.totalDsrDescontado
                  = SummaryWithout(emps[e], r, refMonth, holidays)
                      .totalDsrDescontado
          /\ DisplayUnaffectedByAbono(emps[e], r, refMonth, holidays)

\* C8 amended: after every recomputation an aboned row adds nothing to the
\* overtime, deficit and fault totals, adds nothing to the lost rest days
\* unless its day is a holiday, and shows the overtime it would show
\* without the abono
C8_AbonedRowOutsideTotals ==
  [][Recompute =>
       C8_AmendedAfter(employees', referenceMonth', customHolidays')]_vars

\* an aboned day with overtime of its own and none in the month total
C8_Witness ==
  /\ Quiescent
  /\ \E e \in 1..Len(employees) :
       /\ employees[e].summary.totalExtrasNormal = 0
       /\ \E r \in 1..Len(employees[e].rows) :
            /\ IsComputed(employees[e].rows[r])
            /\ employees[e].rows[r].isAboned
            /\ employees[e].rows[r]._calculatedNormal > 0

(***************************************************************************)
(* C9: normalization is idempotent: the six columns that                   *)
(* normalizeAndSortRow or processRawTimestampsToColumns return are         *)
(* reproduced when they are fed back into normalizeAndSortRow.             *)
(***************************************************************************)
\* C9: the columns normalized a second time are the columns normalized once
C9_NormalizationIsIdempotent ==
  normPhase = "renormalized" => renormalized = columns

\* more punches than columns were normalized, all six columns are filled,
\* and the second normalization has run
C9_Witness ==
  /\ normPhase = "renormalized"
  /\ Len(rawTimestamps) > 6
  /\ columns.exit3 # <<>>
  /\ renormalized = columns

(***************************************************************************)
(* C10: after normalization no positive gap below 20 minutes remains       *)
(* between an Exit and the following Entry, and four punches a<b<c<d with  *)
(* 5 <= c-b < 20 normalize to the pair (a, d) with d - a daily minutes.    *)
(***************************************************************************)
\* the minutes of the punches that survive in the columns
SurvivingMinutes(cols) == ParseAll(ColumnsOf(cols))

IsCoffeeGap(gap) == gap > 0 /\ gap < CoffeeBreakThreshold

\* the raw punches in ascending order of their minutes
SortedRaw == SortAscending(ParseAll(rawTimestamps))

\* four readable punches at four different minutes, the middle two a
\* coffee break apart
FourPunchesWithCoffeeBreak ==
  /\ Len(rawTimestamps) = 4
  /\ Len(SortedRaw) = 4
  /\ \A k \in 1..3 : SortedRaw[k] < SortedRaw[k + 1]
  /\ SortedRaw[3] - SortedRaw[2] >= DuplicateThreshold
  /\ SortedRaw[3] - SortedRaw[2] < CoffeeBreakThreshold

FusedIntoOnePair ==
  /\ SurvivingMinutes(columns) = <<SortedRaw[1], SortedRaw[4]>>
  /\ dailyMinutes # Null => dailyMinutes = SortedRaw[4] - SortedRaw[1]

\* C10 as stated: no Exit is followed within 20 minutes by an Entry, and
\* four punches whose middle two are 5 to 19 minutes apart fuse into (a, d)
C10_NoCoffeeGapRemains ==
  normPhase \in {"normalized", "renormalized"} =>
    /\ \A k \in {2, 4} :
         k + 1 <= Len(SurvivingMinutes(columns)) =>
           ~IsCoffeeGap(SurvivingMinutes(columns)[k + 1]
                          - SurvivingMinutes(columns)[k])
    /\ FourPunchesWithCoffeeBreak => FusedIntoOnePair

\* C10 amended: no Exit is followed within 20 minutes by an Entry that has
\* an Exit of its own, and four punches whose middle two are 5 to 19
\* minutes apart fuse into (a, d) when neither the first two nor the last
\* two are duplicate reads of each other
C10_NoCoffeeGapBetweenBlocks ==
  normPhase \in {"normalized", "renormalized"} =>
    /\ \A k \in {2, 4} :
         k + 2 <= Len(SurvivingMinutes(columns)) =>
           ~IsCoffeeGap(SurvivingMinutes(columns)[k + 1]
                          - SurvivingMinutes(columns)[k])
    /\ (/\ FourPunchesWithCoffeeBreak
        /\ SortedRaw[2] - SortedRaw[1] >= DuplicateThreshold
        /\ SortedRaw[4] - SortedRaw[3] >= DuplicateThreshold)
         => FusedIntoOnePair

\* the card 08:00, 10:00, 10:15, 12:00 normalized and totalled
C10_Witness ==
  /\ normPhase \in {"normalized", "renormalized"}
  /\ SortedRaw = <<480, 600, 615, 720>>
  /\ Len(rawTimestamps) = 4
  /\ SurvivingMinutes(columns) = <<480, 720>>
  /\ dailyMinutes = 240

(***************************************************************************)
(* C11: after normalization no filled (Entry, Exit) pair of the columns    *)
(* lasts less than 10 minutes.                                             *)
(***************************************************************************)
NoShortPair(mins) ==
  \A k \in {1, 3, 5} :
    k + 1 <= Len(mins) => mins[k + 1] - mins[k] >= NoiseThreshold

\* C11: every filled pair (entryK, exitK) of the normalized columns has
\* exitK - entryK >= 10
C11_NoShortPairRemains ==
  normPhase \in {"normalized", "renormalized"} =>
    NoShortPair(SurvivingMinutes(columns))

\* the card 08:00, 10:00, 12:00, 12:08 normalized: the pair of 8 minutes
\* is gone
C11_Witness ==
  /\ normPhase \in {"normalized", "renormalized"}
  /\ SortedRaw = <<480, 600, 720, 728>>
  /\ SurvivingMinutes(columns) = <<480, 600>>

(***************************************************************************)
(* C12: whatever the order of the punches, the filled columns are a        *)
(* prefix of the six columns, in strictly ascending minute order, and the  *)
(* same as for any other order of the same punches.                        *)
(***************************************************************************)
\* the list with the punches at positions i and i + 1 exchanged
SwapAt(s, i) ==
  [k \in 1..Len(s) |-> IF k = i THEN s[i + 1]
                       ELSE IF k = i + 1 THEN s[i] ELSE s[k]]

FilledPrefix(cells) ==
  \A k \in 2..Len(cells) : cells[k] # <<>> => cells[k - 1] # <<>>

StrictlyAscending(mins) ==
  \A k \in 1..(Len(mins) - 1) : mins[k] < mins[k + 1]

\* the columns do not change when the punches are reversed or two
\* neighbours are exchanged
SameForOtherOrders(raw, cols) ==
  /\ processRawTimestampsToColumns(Reverse(raw)) = cols
  /\ \A i \in 1..(Len(raw) - 1) :
       processRawTimestampsToColumns(SwapAt(raw, i)) = cols
  /\ Len(raw) <= 6 =>
       normalizeAndSortRow(Cell(Reverse(raw), 0), Cell(Reverse(raw), 1),
                           Cell(Reverse(raw), 2), Cell(Reverse(raw), 3),
                           Cell(Reverse(raw), 4), Cell(Reverse(raw), 5))
         = cols

\* C12: the filled normalized columns are a prefix of the six columns, in
\* strictly ascending minute order, and independent of the order in which
\* the punches were supplied
C12_ColumnsSortedWhateverTheOrder ==
  normPhase \in {"normalized", "renormalized"} =>
    /\ FilledPrefix(ColumnsOf(columns))
    /\ Len(SurvivingMinutes(columns))
         = Len(SelectSeq(ColumnsOf(columns), LAMBDA c : c # <<>>))
    /\ StrictlyAscending(SurvivingMinutes(columns))
    /\ SameForOtherOrders(rawTimestamps, columns)

\* the punches 10:00, 08:00 normalized to entry1 = 08:00, exit1 = 10:00
C12_Witness ==
  /\ normPhase \in {"normalized", "renormalized"}
  /\ rawTimestamps = <<Str(10, 0), Str(8, 0)>>
  /\ columns.entry1 = Str(8, 0)
  /\ columns.exit1 = Str(10, 0)
  /\ columns.entry2 = <<>>

(***************************************************************************)
(* C13: timeToMinutes and minutesToTime round-trip on the minutes of a day *)
(* and on the zero-padded "HH:MM" texts; a text with '?', '[' or ']' and   *)
(* the empty text have no minute value.                                    *)
(***************************************************************************)
\* a zero-padded "HH:MM" of the 24-hour clock
IsClockText(s) ==
  /\ Len(s) = 5
  /\ s[3] = ":"
  /\ \A k \in {1, 2, 4, 5} : IsDigit(s[k])
  /\ DigitVal(s[1]) * 10 + DigitVal(s[2]) <= 23
  /\ DigitVal(s[4]) * 10 + DigitVal(s[5]) <= 59

HasUncertaintyMarker(s) ==
  \E k \in 1..Len(s) : s[k] \in {"?", "[", "]"}

IsMinuteOfDay(m) == m \in 0..(24 * 60 - 1)

\* C13: a minute of the day formatted and parsed again is the same minute;
\* a zero-padded HH:MM parsed and formatted again is the same text; a text
\* with an uncertainty marker and the empty text parse to the absent value
C13_ConversionsRoundTrip ==
  /\ (utilPhase = "formattedParsed" /\ IsMinuteOfDay(minuteValue))
       => minuteBack = minuteValue
  /\ (utilPhase \in {"parsed", "parsedFormatted"} /\ IsClockText(timeText))
       => minuteValue # Null
  /\ (utilPhase = "parsedFormatted" /\ IsClockText(timeText))
       => textBack = timeText
  /\ (/\ utilPhase \in {"parsed", "parsedFormatted"}
      /\ (timeText = <<>> \/ HasUncertaintyMarker(timeText)))
       => minuteValue = Null

\* 08:00 parsed to 480 and formatted back to 08:00
C13_Witness ==
  /\ utilPhase = "parsedFormatted"
  /\ timeText = Str(8, 0)
  /\ minuteValue = 480
  /\ textBack = timeText

(***************************************************************************)
(* C14: every minute value timeToMinutes returns lies in 0..1439.          *)
(***************************************************************************)
\* C14: whatever the text, a result of timeToMinutes that is not absent is
\* a minute of the day
C14_ParsedMinutesWithinTheDay ==
  /\ (utilPhase \in {"parsed", "parsedFormatted"} /\ minuteValue # Null)
       => IsMinuteOfDay(minuteValue)
  /\ (utilPhase = "formattedParsed" /\ minuteBack # Null)
       => IsMinuteOfDay(minuteBack)

(***************************************************************************)
(* C15: getHolidayName returns the first custom holiday of the day and     *)
(* month whose year is absent or the queried year, before any system       *)
(* holiday; a custom holiday of another year is ignored; without a custom  *)
(* match it returns the first system holiday of the date, else null.       *)
(***************************************************************************)
CustomMatches(q) ==
  {i \in 1..Len(q.customHolidays) :
     /\ q.customHolidays[i].day = q.day
     /\ q.customHolidays[i].month = q.month
     /\ (q.customHolidays[i].year = Null
           \/ q.customHolidays[i].year = q.year)}

SystemMatches(q) ==
  {i \in 1..Len(getStandardHolidays(q.year)) :
     /\ getStandardHolidays(q.year)[i].day = q.day
     /\ getStandardHolidays(q.year)[i].month = q.month}

Lowest(indices) == CHOOSE i \in indices : \A j \in indices : i <= j

ExpectedHolidayName(q, custom, system) ==
  IF custom # {} THEN <<q.customHolidays[Lowest(custom)].name>>
  ELSE IF system # {}
  THEN <<getStandardHolidays(q.year)[Lowest(system)].name>>
  ELSE <<>>

\* C15: the name returned is that of the first matching custom holiday,
\* else of the first system holiday of the date in that year, else null
C15_CustomHolidayWins ==
  utilPhase = "holidayNamed" =>
    holidayFound = ExpectedHolidayName(holidayQuery,
                                       CustomMatches(holidayQuery),
                                       SystemMatches(holidayQuery))

\* on Tiradentes 2025 a custom holiday of 2024 is passed over and the
\* custom holiday without a year wins over the system holiday
C15_Witness ==
  /\ utilPhase = "holidayNamed"
  /\ holidayQuery.day = 21 /\ holidayQuery.month = 4
  /\ holidayQuery.year = 2025
  /\ Len(holidayQuery.customHolidays) = 2
  /\ holidayQuery.customHolidays[1].year = 2024
  /\ holidayQuery.customHolidays[2].year = Null
  /\ holidayFound = <<"Ponte">>

\* ---- C16 ----
\* the breaks from the exit of a normalized pair to the entry of the next
LunchBreaks(processed) ==
  {processed[2 * k + 1] - processed[2 * k] :
     k \in 1..((Len(processed) \div 2) - 1)}

HasLunchBreak(processed) == \E b \in LunchBreaks(processed) : b >= 60

NormalizedPunches(cells) ==
  processTimeEntries(cells[1], cells[2], cells[3], cells[4], cells[5],
                     cells[6])

\* C16: the "no adequate lunch" warning is given exactly when more than 360
\* minutes were worked and no break of at least 60 minutes separates two
\* normalized pairs, a day of a single pair included.
C16_NoLunchWarnedExactly ==
  utilPhase = "warned" =>
    (NoLunchWarning \in laborWarnings
       <=> (warnedTotal > 360
              /\ ~HasLunchBreak(NormalizedPunches(warnedCells))))

\* ---- C17 ----
\* the day numbers of the rows of an employee
DayNumbers(emp) == [r \in 1..Len(emp.rows) |-> ParseInt(emp.rows[r].day)]

OneRowPerDay(emp) ==
  \A r, q \in 1..Len(emp.rows) :
    r # q => DayNumbers(emp)[r] # DayNumbers(emp)[q]

\* C17: after the initial upload and any appended uploads, row edits and
\* recomputations, no employee holds two rows of the same day number.
C17_OneRowPerDayNumber ==
  \A e \in 1..Len(employees) : OneRowPerDay(employees[e])

\* ---- C18 ----
IsDone == retryPhase = "done"

\* the k-th failure was followed by another call of the service
FollowedByCall(k) == serviceCalls > k

LastFailure == failures[Len(failures)]

IsServerFailure(error) ==
  LET status == IF error.status \notin {Null, 0} THEN error.status
                ELSE error.code
  IN status \notin {Null, 0, TextCode} /\ status >= 500

\* at most three calls of the service
AtMostThreeCalls == serviceCalls <= 3

\* every failure followed by another call carried a status of 500 or more
RetriedOnlyServerFailures ==
  \A k \in 1..Len(failures) :
    FollowedByCall(k) => IsServerFailure(failures[k])

\* a failure below 500 or without status ends the invocation at once: it is
\* thrown and no call follows
OtherFailureThrownAtOnce ==
  \A k \in 1..Len(failures) :
    ~IsServerFailure(failures[k]) =>
      /\ k = Len(failures)
      /\ serviceCalls = k
      /\ outcome = <<"thrown", failures[k]>>

\* the invocation ends returning rows or throwing the last error
EndsReturningOrThrowingLast ==
  IsDone =>
    \/ outcome \in {<<"returned", "rows">>, <<"returned", "empty">>}
    \/ failures # <<>> /\ outcome = <<"thrown", LastFailure>>

\* C18: an invocation calls the service at most three times, retries only
\* after a failure whose status or code is 500 or more, throws any other
\* failure at once, and always ends, returning rows or throwing the last
\* error.
C18_RetriesBoundedAndTerminating ==
  /\ [](/\ AtMostThreeCalls
        /\ RetriedOnlyServerFailures
        /\ OtherFailureThrownAtOnce
        /\ EndsReturningOrThrowingLast)
  /\ <>IsDone

\* three calls, the first two failed with 503 and 500, the third with 400
C18_Witness ==
  /\ IsDone
  /\ serviceCalls = 3
  /\ Len(failures) = 3
  /\ failures[1].status = 503
  /\ failures[2] = [status |-> Null, code |-> 500]
  /\ outcome = <<"thrown", [status |-> 400, code |-> Null]>>

\* ---- C19 ----
\* the engine run once more on the employees, nothing else changed
RunAgain(emps) == RecalculateAll(emps, referenceMonth, customHolidays)

\* rows and summary of every employee are what the engine gives for them
IsFixpoint(emps) ==
  \A e \in 1..Len(emps) :
    /\ RunAgain(emps)[e].rows = emps[e].rows
    /\ RunAgain(emps)[e].summary = emps[e].summary

\* a run of the effect over at least one employee
EngineRuns == Recompute /\ Len(employees) > 0

\* C19: the engine run again on the rows it just produced, with the same
\* schedule, holidays and reference month, gives the same rows and the
\* same summary, and the effect, re-run whenever the rows change, comes to
\* rest after every change.
C19_RecomputationIsFixpoint ==
  /\ [][EngineRuns => IsFixpoint(employees')]_vars
  /\ []<>Quiescent

\* the engine has run on the rows it produced after an edit, and rests
C19_Witness ==
  /\ Quiescent
  /\ userEdits > 0
  /\ Len(employees) > 0
  /\ IsComputed(employees[1].rows[1])
  /\ employees[1].summary # EmptySummary
  /\ IsFixpoint(employees)

\* ---- C20 ----
\* isFalta as the first pass computes it for a row of the employee
PassOneFault(emp, row) ==
  EnrichRow(row, emp.schedule, RefYear(referenceMonth),
            RefMonth(referenceMonth), customHolidays)._tempIsFalta

WithWeekendFlipped(row) == [row EXCEPT !.isWeekend = ~row.isWeekend]

StrFERIADO == <<"F", "E", "R", "I", "A", "D", "O">>

WithFeriadoLabel(row) ==
  [row EXCEPT !.dayLabel = row.dayLabel \o <<" ">> \o StrFERIADO]

\* isFalta is the classification of the row by the first pass
ClassifiedAsClaimed(emp, row, isFalta) ==
  /\ isFalta <=> CandidateFault(emp, row, referenceMonth, customHolidays)
  /\ PassOneFault(emp, WithWeekendFlipped(row)) <=> isFalta
  /\ PassOneFault(emp, WithFeriadoLabel(row)) <=> isFalta

OrdinalOf(q, d) == DayOfYear(q.year, q.month, d)

\* the ordinal of the Sunday that opens the calendar week of the day
SundayBefore(q, d) == OrdinalOf(q, d) - GetDay(q.year, q.month, d)

SameCalendarWeek(q) == SundayBefore(q, q.day) = SundayBefore(q, q.other)

\* ceil((n + j) / 7)
ClaimedWeek(q, d) == CeilDiv(OrdinalOf(q, d) + Jan1Weekday(q.year), 7)

\* C21: the week number of a day is ceil((n + j) / 7), n its ordinal in the
\* year and j the weekday of January 1st, so two days of a month share a
\* week group exactly when they lie in the same Sunday-to-Saturday week.
C21_WeekNumberGroupsCalendarWeeks ==
  utilPhase = "weeks" =>
    /\ calendarAnswer[1] = ClaimedWeek(calendarQuery, calendarQuery.day)
    /\ (calendarAnswer[1] = calendarAnswer[2])
         <=> SameCalendarWeek(calendarQuery)

\* ---- C22 ----
\* the day number is no date of the reference month
IsInvalidDate(row) ==
  /\ HasDayNumber(row)
  /\ ParseInt(row.day) \notin
       1..DaysInMonth(RefYear(referenceMonth), RefMonth(referenceMonth))

\* target 0, no fault, no deficit
LeftUnclassified(row) ==
  /\ row._tempTarget = 0
  /\ ~row._tempIsFalta
  /\ RowDeficit(row) = 0

\* C22: a computed row whose day number is no date of the reference month
\* has target 0, is no fault and carries no deficit, and a row whose day
\* number cannot be parsed belongs to no week.
C22_InvalidDatesUnclassified ==
  \A e \in 1..Len(employees) :
    \A r \in 1..Len(employees[e].rows) :
      (Quiescent /\ IsComputed(employees[e].rows[r])) =>
        /\ IsInvalidDate(employees[e].rows[r])
             => LeftUnclassified(employees[e].rows[r])
        /\ ~HasDayNumber(employees[e].rows[r])
             => employees[e].rows[r]._tempWeek = 0

\* ---- C23 ----
\* the schedule of the weekday of the row cannot be read as a time
ScheduleUnparseable(emp, row) ==
  timeToMinutes(emp.schedule[WeekdayOf(row, referenceMonth)]) = Null

\* every row of a weekday without readable schedule has target 0, is no
\* fault and has no deficit
ZeroTargetWhereUnparseable(emps) ==
  \A e \in 1..Len(emps) :
    \A r \in 1..Len(emps[e].rows) :
      (IsReady(emps[e]) /\ HasDayNumber(emps[e].rows[r])
         /\ ScheduleUnparseable(emps[e], emps[e].rows[r])) =>
        LeftUnclassified(emps[e].rows[r])

\* C23: when the schedule of a weekday cannot be parsed as a time, the
\* empty text of a cleared field included, a run of the engine gives the
\* days of that weekday target 0, so they are no faults and have no
\* deficit.
C23_UnparseableScheduleIsZeroTarget ==
  [][EngineRuns => ZeroTargetWhereUnparseable(employees')]_vars

\* ---- C24 ----
\* what the user enters on a row
InputsOf(row) ==
  <<row.sundayMode, row.forceDsr, row.manuallyDisabledDsr, row.isAboned,
    row.entry1, row.exit1, row.entry2, row.exit2, row.entry3, row.exit3>>

HasRow(emp, id) == \E r \in 1..Len(emp.rows) : emp.rows[r].id = id

RowById(emp, id) ==
  emp.rows[CHOOSE r \in 1..Len(emp.rows) : emp.rows[r].id = id]

\* the rows of the employee whose inputs differ between before and after
ChangedInputs(before, after) ==
  {id \in RowIds :
     /\ HasRow(before, id) /\ HasRow(after, id)
     /\ InputsOf(RowById(before, id)) # InputsOf(RowById(after, id))}

\* one of the four row handlers acts on the row
RowHandlerActs(rowId) ==
  \/ toggleAbono(rowId)
  \/ cycleSundayMode(rowId)
  \/ cycleDsrStatus(rowId)
  \/ \E input \in TimeInputs : handleTimeInput(rowId, input[1], input[2])

\* the inputs changed on the employee are those of one row, the employee is
\* the active one and a row handler acted on that row
OnlyTargetedRowChanged(before, after) ==
  ChangedInputs(before, after) # {} =>
    /\ before.id = activeEmployeeId
    /\ \E rowId \in RowIds :
         /\ ChangedInputs(before, after) = {rowId}
         /\ RowHandlerActs(rowId)

InputsFramed ==
  \A e \in 1..Len(employees) :
    e <= Len(employees') =>
      /\ Recompute => ChangedInputs(employees[e], employees'[e]) = {}
      /\ OnlyTargetedRowChanged(employees[e], employees'[e])

GaussM(year) ==
  LET k == year \div 100
  IN  (15 - ((13 + 8 * k) \div 25) + k - (k \div 4)) % 30

GaussN(year) == LET k == year \div 100 IN (4 + k - (k \div 4)) % 7

GaussD(year) == (19 * (year % 19) + GaussM(year)) % 30

GaussE(year) ==
  (2 * (year % 4) + 4 * (year % 7) + 6 * GaussD(year) + GaussN(year)) % 7

GaussOffset(year) ==
  IF GaussD(year) = 29 /\ GaussE(year) = 6 THEN 28
  ELSE IF /\ GaussD(year) = 28
          /\ GaussE(year) = 6
          /\ (11 * GaussM(year) + 11) % 30 < 19
       THEN 27
  ELSE GaussD(year) + GaussE(year)

\* the ordinal of 22 March plus the offset
GaussEasterOrdinal(year) == DayOfYear(year, 3, 22) + GaussOffset(year)

IsDateOf(year, h) ==
  h.month \in 1..12 /\ h.day \in 1..DaysInMonth(year, h.month)

OrdinalOfHoliday(year, h) == DayOfYear(year, h.month, h.day)

\* the holiday at position k is a date of the year, carries the name and
\* lies the given number of days from Easter
MovableAt(year, list, k, name, fromEaster) ==
  /\ list[k].name = name
  /\ IsDateOf(year, list[k])
  /\ OrdinalOfHoliday(year, list[k])
       = OrdinalOfHoliday(year, list[12]) + fromEaster

EasterAsClaimed(year, easter) ==
  /\ OrdinalOfHoliday(year, easter) = GaussEasterOrdinal(year)
  /\ GetDay(year, easter.month, easter.day) = 0
  /\ OrdinalOfHoliday(year, easter) >= DayOfYear(year, 3, 22)
  /\ OrdinalOfHoliday(year, easter) <= DayOfYear(year, 4, 25)

HolidaysAsClaimed(year, list) ==
  /\ Len(list) = 15
  /\ SubSeq(list, 1, 11) = FixedHolidays
  /\ EasterAsClaimed(year, list[12])
  /\ MovableAt(year, list, 12, "Páscoa", 0)
  /\ MovableAt(year, list, 13, "Carnaval", -47)
  /\ MovableAt(year, list, 14, "Sexta-feira Santa", -2)
  /\ MovableAt(year, list, 15, "Corpus Christi", 60)

\* C25: for the years 1900 to 2099 getStandardHolidays gives the 11 fixed
\* holidays and four movable ones: Easter on the Sunday of the Gregorian
\* rule, between 22 March and 25 April, Carnival 47 days before it, Good
\* Friday 2 days before it and Corpus Christi 60 days after it, each a date
\* of the year.
C25_MovableFeastsFollowEaster ==
  utilPhase = "holidays" =>
    HolidaysAsClaimed(calendarQuery.year, calendarAnswer)

\* 2024, a leap year with Easter on 31 March: Carnival on 13 February and
\* Corpus Christi on 30 May
C25_Witness ==
  /\ utilPhase = "holidays"
  /\ calendarQuery.year = 2024
  /\ [day |-> calendarAnswer[12].day, month |-> calendarAnswer[12].month]
       = [day |-> 31, month |-> 3]
  /\ [day |-> calendarAnswer[13].day, month |-> calendarAnswer[13].month]
       = [day |-> 13, month |-> 2]
  /\ [day |-> calendarAnswer[15].day, month |-> calendarAnswer[15].month]
       = [day |-> 30, month |-> 5]

\* ---- C26 ----
MergeFields ==
  {"dayLabel", "entry1", "exit1", "entry2", "exit2", "entry3", "exit3"}

\* the day numbers of the rows whose day can be parsed
ParseableDays(rows) ==
  { DayInt(rows[i].day) : i \in 1..Len(rows) } \ {Null}

RowsOfDay(rows, n) == SelectSeq(rows, LAMBDA r : DayInt(r.day) = n)

\* a value that is not empty and not the unreadable mark; blank values
\* count as empty when blankIsEmpty holds
Filled(v, blankIsEmpty) ==
  /\ v # <<>>
  /\ v # StrUnknown
  /\ blankIsEmpty => Trim(v) # <<>>

\* the first filled value of the field in input order, or the first row's
FirstFilled(rows, field, blankIsEmpty) ==
  IF \E i \in 1..Len(rows) : Filled(rows[i][field], blankIsEmpty)
  THEN LET k == CHOOSE i \in 1..Len(rows) :
                  /\ Filled(rows[i][field], blankIsEmpty)
                  /\ \A j \in 1..(i - 1) :
                       ~Filled(rows[j][field], blankIsEmpty)
       IN  rows[k][field]
  ELSE rows[1][field]

MergedAsClaimed(row, rows, blankIsEmpty) ==
  /\ \A field \in MergeFields :
        row[field] = FirstFilled(rows, field, blankIsEmpty)
  /\ row.isWeekend = (\E i \in 1..Len(rows) : rows[i].isWeekend)

OnePerDaySorted(input, output) ==
  /\ { ParseInt(output[i].day) : i \in 1..Len(output) }
       = ParseableDays(input)
  /\ Len(output) = Cardinality(ParseableDays(input))
  /\ \A i \in 1..(Len(output) - 1) :
        ParseInt(output[i].day) < ParseInt(output[i + 1].day)

DeduplicatedAsClaimed(input, output, blankIsEmpty) ==
  /\ OnePerDaySorted(input, output)
  /\ \A i \in 1..Len(output) :
        MergedAsClaimed(output[i],
                        RowsOfDay(input, ParseInt(output[i].day)),
                        blankIsEmpty)

\* C26: deduplicateAndMergeRows returns one row per parseable day number in
\* ascending order and drops the rows without one; the label and each time
\* column of a day hold the first value in input order that is not blank
\* and not "[?]", or the first row's value when there is none, and
\* isWeekend is the disjunction over the rows of the day.
C26_MergeKeepsFirstUsefulValue ==
  utilPhase = "merged" =>
    DeduplicatedAsClaimed(scannedRows, mergedRows, TRUE)

\* C26 as stated: a blank value counts as a value, so that it is kept
\* although a later row has a time in the column
C26_AsStated ==
  utilPhase = "merged" =>
    DeduplicatedAsClaimed(scannedRows, mergedRows, FALSE)

\* three rows of which the second has no day number; the first row of
\* day 1 has the mark where the last one has a time, and only the last one
\* is a weekend row
C26_Witness ==
  /\ utilPhase = "merged"
  /\ Len(scannedRows) = 3
  /\ DayInt(scannedRows[1].day) = 1
  /\ DayInt(scannedRows[2].day) = Null
  /\ DayInt(scannedRows[3].day) = 1
  /\ scannedRows[1].entry1 = StrUnknown
  /\ scannedRows[3].entry1 = Str(9, 0)
  /\ scannedRows[3].isWeekend /\ ~scannedRows[1].isWeekend
  /\ Len(mergedRows) = 1
  /\ mergedRows[1].day = <<"1">>
  /\ mergedRows[1].entry1 = Str(9, 0)
  /\ mergedRows[1].isWeekend

\* ---- C27 ----
SundayModes == {"auto", "extra", "off"}

\* the mode a stored value counts as
CountsAs(mode) == IF mode = "unset" THEN "auto" ELSE mode

\* the cycle of the claim
ClaimedNextMode(mode) ==
  CASE CountsAs(mode) = "auto" -> "extra"
    [] CountsAs(mode) = "extra" -> "off"
    [] CountsAs(mode) = "off" -> "auto"

\* the modes of the rows of the employee other than the given one
OtherModes(emp, rowId) ==
  [r \in 1..Len(emp.rows) |->
     IF emp.rows[r].id = rowId THEN "same" ELSE emp.rows[r].sundayMode]

\* the click moves the row's mode one step along the cycle and leaves the
\* modes of all other rows as they were
CycledAsClaimed(rowId) ==
  \A e \in 1..Len(employees) :
    IF employees[e].id = activeEmployeeId /\ HasRow(employees[e], rowId)
    THEN LET before == RowById(employees[e], rowId).sundayMode
             after == RowById(employees'[e], rowId).sundayMode
         IN  /\ after \in SundayModes
             /\ after = ClaimedNextMode(before)
             /\ ClaimedNextMode(ClaimedNextMode(after)) = CountsAs(before)
             /\ OtherModes(employees'[e], rowId)
                  = OtherModes(employees[e], rowId)
    ELSE [r \in 1..Len(employees'[e].rows) |->
            employees'[e].rows[r].sundayMode]
         = [r \in 1..Len(employees[e].rows) |->
              employees[e].rows[r].sundayMode]

\* C27: cycleSundayMode moves the row from auto (or unset) to extra, from
\* extra to off and from off to auto, so that three clicks on a row bring
\* it back to the mode it started in, and it changes no other row's mode.
C27_SundayModeCycles ==
  [][\A rowId \in RowIds : cycleSundayMode(rowId) => CycledAsClaimed(rowId)]_vars

\* a row back in AUTO after three clicks on it
C27_Witness ==
  /\ Len(employees) > 0
  /\ \E r \in 1..Len(employees[1].rows) :
       employees[1].rows[r].sundayMode = "auto"

\* ---- C28 ----
NeverBothDsrFlags ==
  \A e \in 1..Len(employees) :
    \A r \in 1..Len(employees[e].rows) :
      ~(employees[e].rows[r].forceDsr
          /\ employees[e].rows[r].manuallyDisabledDsr)

\* the rows the first pass classifies as faults and that are not forced DSR
UnforcedFaults(emp) ==
  {r \in 1..Len(emp.rows) :
     ~emp.rows[r].forceDsr /\ PassOneFault(emp, emp.rows[r])}

\* the weeks of those rows
UnforcedFaultWeeks(emp) ==
  {emp.rows[r]._tempWeek : r \in UnforcedFaults(emp)}

\* no forced row is a fault, the fault days are days of unforced rows and
\* the DSR deducted comes from weeks with an unforced fault, one or two per
\* week
ForcedRowsAreNoFaults(emp) ==
  /\ \A r \in 1..Len(emp.rows) :
        emp.rows[r].forceDsr => ~emp.rows[r]._tempIsFalta
  /\ emp.summary.totalFaltasDays <= Cardinality(UnforcedFaults(emp))
  /\ emp.summary.totalDsrDescontado
       <= 2 * Cardinality(UnforcedFaultWeeks(emp))

ForcedRowsNoFaultsIn(emps) ==
  \A e \in 1..Len(emps) :
    emps[e].status = "ready" => ForcedRowsAreNoFaults(emps[e])

\* C28: no row ever has forceDsr and manuallyDisabledDsr at once, and after
\* every recomputation a row with forceDsr is not a fault, is not counted
\* in the fault days and does not make its week lose the DSR.
C28_ForcedDsrIsNeverAFault ==
  /\ []NeverBothDsrFlags
  /\ [][EngineRuns => ForcedRowsNoFaultsIn(employees')]_vars

\* a row clicked to DSR that the first pass classifies as a fault, computed,
\* in a week without another fault
C28_Witness ==
  /\ Quiescent
  /\ Len(employees) > 0
  /\ employees[1].status = "ready"
  /\ \E r \in 1..Len(employees[1].rows) :
       /\ employees[1].rows[r].forceDsr
       /\ IsComputed(employees[1].rows[r])
       /\ PassOneFault(employees[1], employees[1].rows[r])
       /\ employees[1].rows[r]._tempWeek
            \notin UnforcedFaultWeeks(employees[1])
\* ---- C29 ----
HasEmployee(id) == FindEmployee(employees, id) # <<>>

ProcessingNow(id) ==
  HasEmployee(id) /\ FindEmployee(employees, id)[1].status = "processing"

\* an employee that is processing is later deleted or no longer processing
LeavesProcessing ==
  \A id \in EmployeeIds : ProcessingNow(id) ~> ~ProcessingNow(id)

\* the status the claim gives the employee for an answer of the service
ClaimedStatus(response) ==
  IF ~response.thrown /\ response.rawRows # <<>> THEN "ready" ELSE "error"

\* the employee the call was made for: the one on screen when an append
\* started, the placeholder the call created otherwise
ClaimedTarget(request) ==
  IF request.isAppend THEN request.activeEmployeeId ELSE request.newId

StatusAsClaimed(k, response) ==
  \A e \in 1..Len(employees) :
    employees[e].id = ClaimedTarget(requests[k]) =>
      /\ employees[e].status = "processing"
      /\ employees'[e].status = ClaimedStatus(response)

CompletionSetsStatus ==
  \A k \in 1..MaxRequests, response \in OcrResponses :
    ocrCompleted(k, response) => StatusAsClaimed(k, response)

ProcessingLeftAlone ==
  Recompute =>
    \A e \in 1..Len(employees) :
      employees[e].status = "processing" =>
        /\ employees'[e].rows = employees[e].rows
        /\ employees'[e].summary = employees[e].summary

RowsAsClaimed(before, after, request, rawRows) ==
  /\ Len(after.rows)
       = (IF request.isAppend THEN Len(before.rows) ELSE 0) + Len(rawRows)
  /\ request.isAppend =>
       \A r \in 1..Len(before.rows) :
         \E q \in 1..Len(after.rows) : after.rows[q] = before.rows[r]
  /\ \A i \in 1..Len(rawRows) :
       \E q \in 1..Len(after.rows) :
         /\ after.rows[q].day = rawRows[i].day
         /\ after.rows[q].dayLabel = rawRows[i].dayLabel
         /\ \A r \in 1..Len(before.rows) :
              before.rows[r].id # after.rows[q].id

ImagesAsClaimed(before, after, request) ==
  after.imageUrls = IF request.isAppend
                    THEN before.imageUrls \o request.base64Results
                    ELSE request.base64Results

\* the completion writes to the employee of the call and to no other
WrittenToTarget(k, response) ==
  /\ Len(employees') = Len(employees)
  /\ \A e \in 1..Len(employees) :
       IF employees[e].id # ClaimedTarget(requests[k])
       THEN employees'[e] = employees[e]
       ELSE /\ employees'[e].status = ClaimedStatus(response)
            /\ employees'[e].id = employees[e].id
            /\ IF ClaimedStatus(response) = "ready"
               THEN /\ RowsAsClaimed(employees[e], employees'[e],
                                     requests[k], response.rawRows)
                    /\ ImagesAsClaimed(employees[e], employees'[e],
                                       requests[k])
               ELSE /\ employees'[e].rows = employees[e].rows
                    /\ employees'[e].imageUrls = employees[e].imageUrls

\* C30: with several OCR calls in flight, each answer is written to the
\* employee the call was started for and to no other, in whatever order
\* the calls complete and whichever employee is on screen, added or
\* deleted meanwhile; every other employee is left as it was.
C30_ResultsReachTheirTarget ==
  [][\A k \in 1..MaxRequests, response \in OcrResponses : ocrCompleted(k, response) => WrittenToTarget(k, response)]_vars

\* two calls in flight of which the later one has completed first, for a
\* new employee, after the user has moved to another employee; the first
\* employee has been deleted meanwhile
C30_Witness ==
  /\ Len(requests) = 2
  /\ IsPending(1)
  /\ ~requests[1].isAppend
  /\ ~requests[2].isAppend
  /\ requests[2].state = "done"
  /\ activeEmployeeId # requests[2].activeEmployeeId
  /\ ~HasEmployee("emp-1")
  /\ HasEmployee(requests[2].newId)
  /\ FindEmployee(employees, requests[2].newId)[1].status = "ready"
  /\ Len(FindEmployee(employees, requests[2].newId)[1].rows) = 1
  /\ HasEmployee(requests[1].newId)
  /\ FindEmployee(employees, requests[1].newId)[1].status = "processing"

====
